---- MODULE Spec2Model ----
(***************************************************************************)
(* Model of the web scanner: its scheduling loop (scheduler.py), its       *)
(* relevance store / classifier feedback path (learning_database.py), its  *)
(* scan pipeline, notification callbacks and content filter.               *)
(*                                                                         *)
(* The state machines of the module and their specifications:              *)
(*   Spec, LiveSpec  - ScannerScheduler: the control operations called by  *)
(*                     the main thread and the polling loop thread(s);     *)
(*   FeedbackSpec    - LearningDatabase: record_article,                   *)
(*                     record_user_feedback, _should_retrain, _train_model;*)
(*   PredictSpec     - the same with predict_interest running beside it;   *)
(*   StopSpec        - ScannerScheduler started once and stopped;          *)
(*   ScanSpec        - WebScraper.scan_websites: one pass over the sites   *)
(*                     (web_scraper.py);                                   *)
(*   CallbackSpec    - TelegramNotifier._handle_callback beside a pass     *)
(*                     (telegram_notifier.py);                             *)
(*   FilterSpec      - ContentFilter.is_relevant (content_filter.py);      *)
(*   ScoreSpec       - the two relevance scores of one article;            *)
(*   FallbackSpec    - predict_interest answered by the keyword rule;      *)
(*   CycleSpec       - _perform_scan in detail, with get_status() called   *)
(*                     from another thread.                                *)
(* Each specification leaves the other machines' variables untouched.      *)
(***************************************************************************)
EXTENDS Integers, Sequences, FiniteSets, TLC

(***************************************************************************)
(* Bounds of the model                                                     *)
(***************************************************************************)
MaxTicks == 3        \* the clock stops after this many poll periods
MaxCalls == 3        \* control operations the main thread invokes in one run
MaxThreads == 2      \* loop threads that start() may create in one run
MaxClockSteps == 1   \* the store's clock stops after this many steps
MaxFeedback == 2     \* record_user_feedback calls in one run
MaxNewArticles == 1  \* record_article calls in one run
MaxPredictions == 1  \* predict_interest calls in one run
MaxSites == 2        \* entries of config['websites']
MaxArticles == 3     \* articles the sites serve in one pass, all sites together
MaxPresses == 2      \* button presses the notification channel receives
MaxCore == 3         \* characters of the varied part of an article's content
MaxTerm == 2         \* characters of a keyword or blacklist term
MaxKeywords == 2     \* entries of the keyword list the scores are computed with

(***************************************************************************)
(* Program constants                                                       *)
(***************************************************************************)
PollSeconds == 60        \* time.sleep(60) in _run_scheduler
FirstScanDelay == 60     \* timedelta(seconds=60) in _schedule_next_scan
MinInterval == 60        \* "if interval < 60" in set_scan_interval
None == -1               \* Python None / SQL NULL
MinTrainingExamples == 50  \* "if len(data) < 50" in _train_model
RetrainThreshold == 10   \* "recent_feedback >= 10" in _should_retrain
HoursPerDay == 24        \* the '-1 day' of _should_retrain, in hours
SepT == 84               \* ord('T'): datetime.isoformat() separates date and time by 'T'
SepSpace == 32           \* ord(' '): SQLite datetime() separates them by a space

MaxTime == MaxTicks * PollSeconds
Threads == 1..MaxThreads
\* scan_interval values found in the configuration file at construction, and
\* values a caller passes to set_scan_interval (seconds)
ConfigIntervals == {30, 60}
SetIntervals == {30, 120}
MaxInterval == 120

VARIABLES
    \* ---- ScannerScheduler fields
    scan_interval, enabled, running, thread,
    last_scan, next_scan, total_scans, successful_scans, failed_scans,
    config_interval,     \* config['scan_interval'] as persisted by ConfigManager
    \* ---- execution state
    now,                 \* datetime.now(), seconds
    main_pc,             \* position of the controlling (main) thread
    calls,               \* control operations invoked so far
    last_call,           \* the last control operation, its argument, what it raised
    trigger_pending,     \* the last control call was a successful trigger_scan_now()
                         \* and no scan cycle has started since
    pc,                  \* position of each loop thread in _run_scheduler
    wake,                \* end of each loop thread's time.sleep(60), 0 when awake
    cycle_end,           \* how and when each loop thread's last scan cycle ended
    \* ---- LearningDatabase: committed tables of scanner.db
    articles,            \* articles rows, row id = index: [title, relevance_score, user_interest]
    user_feedback,       \* user_feedback rows in insertion order
    \* ---- LearningDatabase: classifier fields and the snapshot file
    vectorizer, classifier, model_trained, model_file,
    \* ---- execution state of record_user_feedback
    clock,               \* wall clock of the store, hours
    fb_pc,               \* position inside record_user_feedback
    fb_req,              \* its arguments and the timestamp it wrote
    tx,                  \* uncommitted writes of its connection
    train_data,          \* the rows _train_model fetched
    train_before,        \* the classifier fields as _train_model found them
    train_outcome,       \* how the last _train_model call returned
    fb_calls, new_articles,
    \* ---- execution state of predict_interest (scan thread)
    pred_pc,             \* position inside predict_interest
    pred_used,           \* the objects it read from self.vectorizer / self.classifier
    pred_result,         \* how its last call answered: by the model or by keywords
    pred_calls,
    \* ---- WebScraper.scan_websites (scan thread)
    websites,            \* config['websites']: what each configured entry is
    scan_pc,             \* position inside scan_websites
    site_idx, art_idx,   \* the loop positions over websites / filtered_articles
    scraped,             \* articles the scraped pages held so far
    filtered,            \* filtered_articles of the site being scanned
    results,             \* the list scan_websites returns
    notified,            \* articles the channel delivered a notification for
    record_failed,       \* articles whose INSERT failed (logged by record_article)
    accepted,            \* articles is_relevant returned True for, this pass
    predicted,           \* articles is_interesting returned True for, this pass
    \* ---- TelegramNotifier._handle_callback
    cb_pc,               \* position inside _handle_callback
    cb_query,            \* the button press being handled: button and article
    cb_action,           \* action / feedback type the handler dispatched on
    acknowledged,        \* presses answered by editing the message
    store_calls,         \* record_user_feedback invocations made by the channel
    presses,             \* button presses received so far
    \* ---- ContentFilter.is_relevant
    flt_config,          \* keywords and blacklist the filter was built with
    flt_article,         \* the article handed to is_relevant
    flt_result,          \* what is_relevant returned for it
    \* ---- the relevance scores of one article
    score_keywords,      \* config['content_filter.keywords'] (duplicates allowed)
    score_article,       \* what the scores read of the article
    score_result,        \* the scores computed for it
    \* ---- LearningDatabase._basic_interest_prediction
    basic_result,        \* what predict_interest answered by the keyword rule
    \* ---- _perform_scan in detail, get_status
    tor,                 \* TorManager.enabled and TorManager._connected
    channel_enabled,     \* TelegramNotifier.is_enabled()
    cycle,               \* per loop thread, its scan cycle in progress or last ended:
                         \* what rotate_ip and scan_websites did, the summary
    status_pc,           \* position of a get_status() call inside its dict display
    status               \* the counters get_status() read

dbVars == <<articles, user_feedback, vectorizer, classifier, model_trained,
            model_file, clock, fb_pc, fb_req, tx, train_data, train_before,
            train_outcome, fb_calls, new_articles,
            pred_pc, pred_used, pred_result, pred_calls>>

schedVars == <<scan_interval, enabled, running, thread, last_scan, next_scan,
               total_scans, successful_scans, failed_scans, config_interval,
               now, main_pc, calls, last_call, trigger_pending, pc, wake, cycle_end>>

scanVars == <<websites, scan_pc, site_idx, art_idx, scraped, filtered, results, notified,
              record_failed, accepted, predicted>>

cbVars == <<cb_pc, cb_query, cb_action, acknowledged, store_calls, presses>>

filterVars == <<flt_config, flt_article, flt_result>>

scoreVars == <<score_keywords, score_article, score_result>>

cycleVars == <<tor, channel_enabled, cycle, status_pc, status>>

pipeVars == <<scanVars, cbVars, filterVars, scoreVars, basic_result, cycleVars>>

vars == <<schedVars, dbVars, pipeVars>>

(***************************************************************************)
(* ScannerScheduler                                                        *)
(***************************************************************************)

\* (variant: the first-scan branch forgotten, next_scan stays unset)
schedule_next_scan_unset(ls, iv, t) ==
    IF ls # None THEN ls + iv ELSE None

\* _schedule_next_scan: the value it assigns to next_scan
schedule_next_scan(ls, iv, t) ==
    IF ls # None THEN ls + iv ELSE t + FirstScanDelay

\* is_paused()
is_paused == ~enabled /\ running

NoCycle == [kind |-> "none", at |-> None]

\* what the caller of a control operation sees: the operation returned
\* (raised = "none") or raised the named exception; again tells a pause()
\* that directly follows another pause()
Outcome(op, arg, raised) ==
    [op |-> op, arg |-> arg, raised |-> raised,
     again |-> (op = "pause" /\ last_call.op = "pause")]

\* __init__: scan_interval is read from the configuration without validation
SchedInit ==
    /\ config_interval \in ConfigIntervals
    /\ scan_interval = config_interval
    /\ enabled = TRUE
    /\ running = FALSE
    /\ thread = None
    /\ last_scan = None
    /\ next_scan = None
    /\ total_scans = 0
    /\ successful_scans = 0
    /\ failed_scans = 0
    /\ now = 0
    /\ main_pc = "idle"
    /\ calls = 0
    /\ last_call = [op |-> "none", arg |-> None, raised |-> "none", again |-> FALSE]
    /\ trigger_pending = FALSE
    /\ pc = [t \in Threads |-> "none"]
    /\ wake = [t \in Threads |-> 0]
    /\ cycle_end = [t \in Threads |-> NoCycle]

counters == <<total_scans, successful_scans, failed_scans>>
loopVars == <<pc, wake, cycle_end>>

\* the main thread enters a control operation
Call ==
    /\ main_pc = "idle"
    /\ calls < MaxCalls
    /\ calls' = calls + 1

\* (variant: start() without its "if self.running" guard: a running
\* scheduler is started over)
StartAlreadyRunningRestarts ==
    /\ Call
    /\ trigger_pending' = FALSE
    /\ running
    /\ \E t \in Threads :
        /\ pc[t] = "none"
        /\ \A u \in Threads : u < t => pc[u] # "none"
        /\ thread' = t
        /\ pc' = [pc EXCEPT ![t] = "while"]
    /\ enabled' = TRUE
    /\ running' = TRUE
    /\ main_pc' = "start_schedule"
    /\ last_call' = Outcome("start", None, "none")
    /\ UNCHANGED <<scan_interval, last_scan, next_scan, counters, config_interval,
                   now, wake, cycle_end, dbVars, pipeVars>>

\* (variant: start() without its "self.enabled = True")
StartKeepsEnabled ==
    /\ Call
    /\ trigger_pending' = FALSE
    /\ ~running
    /\ \E t \in Threads :
        /\ pc[t] = "none"
        /\ \A u \in Threads : u < t => pc[u] # "none"
        /\ thread' = t
        /\ pc' = [pc EXCEPT ![t] = "while"]
    /\ running' = TRUE
    /\ main_pc' = "start_schedule"
    /\ last_call' = Outcome("start", None, "none")
    /\ UNCHANGED <<scan_interval, enabled, last_scan, next_scan, counters, config_interval,
                   now, wake, cycle_end, dbVars, pipeVars>>

\* start(), lines 31-38: guard, flags, thread creation.  The new thread runs
\* concurrently with the rest of start().
StartAlreadyRunning ==
    /\ Call
    /\ trigger_pending' = FALSE
    /\ running
    /\ last_call' = Outcome("start", None, "none")
    /\ UNCHANGED <<scan_interval, enabled, running, thread, last_scan, next_scan,
                   counters, config_interval, now, main_pc, loopVars, dbVars, pipeVars>>

Start ==
    /\ Call
    /\ trigger_pending' = FALSE
    /\ ~running
    /\ \E t \in Threads :
        /\ pc[t] = "none"
        /\ \A u \in Threads : u < t => pc[u] # "none"
        /\ thread' = t
        /\ pc' = [pc EXCEPT ![t] = "while"]
    /\ enabled' = TRUE
    /\ running' = TRUE
    /\ main_pc' = "start_schedule"
    /\ last_call' = Outcome("start", None, "none")
    /\ UNCHANGED <<scan_interval, last_scan, next_scan, counters, config_interval,
                   now, wake, cycle_end, dbVars, pipeVars>>

\* start(), line 41: self._schedule_next_scan()
StartSchedule ==
    /\ main_pc = "start_schedule"
    /\ UNCHANGED <<calls, last_call>>
    /\ next_scan' = schedule_next_scan(last_scan, scan_interval, now)
    /\ main_pc' = "idle"
    /\ UNCHANGED <<scan_interval, enabled, running, thread, last_scan, counters,
                   config_interval, now, loopVars, trigger_pending, dbVars, pipeVars>>

\* stop(): clears both flags; join(timeout=10) only waits, it changes no field
\* and returns whether or not the loop has exited.
Stop ==
    /\ Call
    /\ trigger_pending' = FALSE
    /\ enabled' = FALSE
    /\ running' = FALSE
    /\ last_call' = Outcome("stop", None, "none")
    /\ UNCHANGED <<scan_interval, thread, last_scan, next_scan, counters,
                   config_interval, now, main_pc, loopVars, dbVars, pipeVars>>

\* (variant: pause() flips the enabled flag instead of clearing it)
PauseToggles ==
    /\ Call
    /\ trigger_pending' = FALSE
    /\ enabled' = ~enabled
    /\ last_call' = Outcome("pause", None, "none")
    /\ UNCHANGED <<scan_interval, running, thread, last_scan, next_scan, counters,
                   config_interval, now, main_pc, loopVars, dbVars, pipeVars>>

\* pause()
Pause ==
    /\ Call
    /\ trigger_pending' = FALSE
    /\ enabled' = FALSE
    /\ last_call' = Outcome("pause", None, "none")
    /\ UNCHANGED <<scan_interval, running, thread, last_scan, next_scan, counters,
                   config_interval, now, main_pc, loopVars, dbVars, pipeVars>>

\* resume(): RuntimeError when not running, otherwise re-enable and reschedule
Resume ==
    /\ Call
    /\ trigger_pending' = FALSE
    /\ IF ~running
       THEN /\ last_call' = Outcome("resume", None, "RuntimeError")
            /\ UNCHANGED <<enabled, next_scan>>
       ELSE /\ enabled' = TRUE
            /\ next_scan' = schedule_next_scan(last_scan, scan_interval, now)
            /\ last_call' = Outcome("resume", None, "none")
    /\ UNCHANGED <<scan_interval, running, thread, last_scan, counters,
                   config_interval, now, main_pc, loopVars, dbVars, pipeVars>>

\* (variant: set_scan_interval without its "interval < 60" test)
SetScanIntervalUnchecked ==
    /\ Call
    /\ trigger_pending' = FALSE
    /\ \E interval \in SetIntervals :
        /\ last_call' = Outcome("set_scan_interval", interval, "none")
        /\ scan_interval' = interval
        /\ config_interval' = interval
        /\ next_scan' = IF running
                        THEN schedule_next_scan(last_scan, interval, now)
                        ELSE next_scan
    /\ UNCHANGED <<enabled, running, thread, last_scan, counters, now, main_pc,
                   loopVars, dbVars, pipeVars>>

\* (variant: set_scan_interval reschedules before it stores the new interval)
SetScanIntervalStale ==
    /\ Call
    /\ trigger_pending' = FALSE
    /\ \E interval \in SetIntervals :
        IF interval < MinInterval
        THEN /\ last_call' = Outcome("set_scan_interval", interval, "ValueError")
             /\ UNCHANGED <<scan_interval, config_interval, next_scan>>
        ELSE /\ last_call' = Outcome("set_scan_interval", interval, "none")
             /\ scan_interval' = interval
             /\ config_interval' = interval
             /\ next_scan' = IF running
                             THEN schedule_next_scan(last_scan, scan_interval, now)
                             ELSE next_scan
    /\ UNCHANGED <<enabled, running, thread, last_scan, counters, now, main_pc,
                   loopVars, dbVars, pipeVars>>

\* set_scan_interval(interval)
SetScanInterval ==
    /\ Call
    /\ trigger_pending' = FALSE
    /\ \E interval \in SetIntervals :
        IF interval < MinInterval
        THEN /\ last_call' = Outcome("set_scan_interval", interval, "ValueError")
             /\ UNCHANGED <<scan_interval, config_interval, next_scan>>
        ELSE /\ last_call' = Outcome("set_scan_interval", interval, "none")
             /\ scan_interval' = interval
             /\ config_interval' = interval
             /\ next_scan' = IF running
                             THEN schedule_next_scan(last_scan, interval, now)
                             ELSE next_scan
    /\ UNCHANGED <<enabled, running, thread, last_scan, counters, now, main_pc,
                   loopVars, dbVars, pipeVars>>

\* (variant: trigger_scan_now without its "if not self.running" test)
TriggerScanNowUnguarded ==
    /\ Call
    /\ next_scan' = now
    /\ last_call' = Outcome("trigger_scan_now", None, "none")
    /\ trigger_pending' = TRUE
    /\ UNCHANGED <<scan_interval, enabled, running, thread, last_scan, counters,
                   config_interval, now, main_pc, loopVars, dbVars, pipeVars>>

\* trigger_scan_now(): RuntimeError when not running, otherwise next_scan = now
TriggerScanNow ==
    /\ Call
    /\ next_scan' = IF running THEN now ELSE next_scan
    /\ last_call' = Outcome("trigger_scan_now", None,
                            IF running THEN "none" ELSE "RuntimeError")
    /\ trigger_pending' = running
    /\ UNCHANGED <<scan_interval, enabled, running, thread, last_scan, counters,
                   config_interval, now, main_pc, loopVars, dbVars, pipeVars>>

(***************************************************************************)
(* The loop thread: _run_scheduler and _perform_scan                       *)
(***************************************************************************)
unchangedByLoop == <<scan_interval, enabled, running, thread, config_interval,
                     now, main_pc, calls, last_call, trigger_pending, dbVars, pipeVars>>

Goto(t, l) == pc' = [pc EXCEPT ![t] = l]

\* (variant: no except clause, the error ends the thread)
ExceptTargetEscapes == "dead"

\* where control goes when the pipeline raises inside _perform_scan's try
\* block: the except clause of lines 105-111
ExceptTarget == "except_total"

\* (variant: the loop does not test the running flag)
LoopWhileForever(t) ==
    /\ pc[t] = "while"
    /\ Goto(t, "check")
    /\ UNCHANGED <<unchangedByLoop, last_scan, next_scan, counters, wake, cycle_end>>

\* line 55: while self.running
LoopWhile(t) ==
    /\ pc[t] = "while"
    /\ Goto(t, IF running THEN "check" ELSE "dead")
    /\ UNCHANGED <<unchangedByLoop, last_scan, next_scan, counters, wake, cycle_end>>

\* lines 57-65: read the clock, compare with next_scan; fire or sleep 60 s
LoopCheck(t) ==
    /\ pc[t] = "check"
    /\ IF next_scan # None /\ now >= next_scan
       THEN /\ Goto(t, "rotate")
            /\ trigger_pending' = FALSE
            /\ UNCHANGED wake
       ELSE /\ Goto(t, "sleep")
            /\ wake' = [wake EXCEPT ![t] = now + PollSeconds]
            /\ UNCHANGED trigger_pending
    /\ UNCHANGED <<scan_interval, enabled, running, thread, config_interval, now,
                   main_pc, calls, last_call, dbVars, pipeVars>>
    /\ UNCHANGED <<last_scan, next_scan, counters, cycle_end>>

\* lines 87-88: tor_manager.rotate_ip() returns True or False (TorManager
\* catches its own errors); the result is ignored
ScanRotate(t) ==
    /\ pc[t] = "rotate"
    /\ \E rotated \in BOOLEAN : Goto(t, "pipeline")
    /\ UNCHANGED <<unchangedByLoop, last_scan, next_scan, counters, wake, cycle_end>>

\* line 91: results = await self.scraper.scan_websites(); it returns or raises
ScanPipeline(t) ==
    /\ pc[t] = "pipeline"
    /\ \E raised \in BOOLEAN :
        Goto(t, IF raised THEN ExceptTarget ELSE "last_scan")
    /\ UNCHANGED <<unchangedByLoop, last_scan, next_scan, counters, wake, cycle_end>>

\* line 94: self.last_scan = datetime.now()
ScanLastScan(t) ==
    /\ pc[t] = "last_scan"
    /\ last_scan' = now
    /\ Goto(t, "total")
    /\ UNCHANGED <<unchangedByLoop, next_scan, counters, wake, cycle_end>>

\* line 95: self.total_scans += 1
ScanTotal(t) ==
    /\ pc[t] = "total"
    /\ total_scans' = total_scans + 1
    /\ Goto(t, "successful")
    /\ UNCHANGED <<unchangedByLoop, last_scan, next_scan, successful_scans,
                   failed_scans, wake, cycle_end>>

\* line 96: self.successful_scans += 1
ScanSuccessful(t) ==
    /\ pc[t] = "successful"
    /\ successful_scans' = successful_scans + 1
    /\ Goto(t, "summary")
    /\ UNCHANGED <<unchangedByLoop, last_scan, next_scan, total_scans,
                   failed_scans, wake, cycle_end>>

\* line 103: _send_scan_summary catches every error of its own body, so the
\* cycle ends normally whether or not the message was delivered
ScanSummary(t) ==
    /\ pc[t] = "summary"
    /\ \E delivered \in BOOLEAN :
        cycle_end' = [cycle_end EXCEPT ![t] = [kind |-> "ok", at |-> now]]
    /\ Goto(t, "reschedule")
    /\ UNCHANGED <<unchangedByLoop, last_scan, next_scan, counters, wake>>

\* line 107: self.total_scans += 1 (except branch)
ExceptTotal(t) ==
    /\ pc[t] = "except_total"
    /\ total_scans' = total_scans + 1
    /\ Goto(t, "except_failed")
    /\ UNCHANGED <<unchangedByLoop, last_scan, next_scan, successful_scans,
                   failed_scans, wake, cycle_end>>

\* line 108: self.failed_scans += 1
ExceptFailed(t) ==
    /\ pc[t] = "except_failed"
    /\ failed_scans' = failed_scans + 1
    /\ Goto(t, "except_notify")
    /\ UNCHANGED <<unchangedByLoop, last_scan, next_scan, total_scans,
                   successful_scans, wake, cycle_end>>

\* line 111: _send_error_notification catches every error of its own body
ExceptNotify(t) ==
    /\ pc[t] = "except_notify"
    /\ \E delivered \in BOOLEAN :
        cycle_end' = [cycle_end EXCEPT ![t] = [kind |-> "failed", at |-> now]]
    /\ Goto(t, "reschedule")
    /\ UNCHANGED <<unchangedByLoop, last_scan, next_scan, counters, wake>>

\* lines 62 and 65: self._schedule_next_scan(); time.sleep(60)
LoopReschedule(t) ==
    /\ pc[t] = "reschedule"
    /\ next_scan' = schedule_next_scan(last_scan, scan_interval, now)
    /\ wake' = [wake EXCEPT ![t] = now + PollSeconds]
    /\ Goto(t, "sleep")
    /\ UNCHANGED <<unchangedByLoop, last_scan, counters, cycle_end>>

\* time.sleep(60) returns
LoopWake(t) ==
    /\ pc[t] = "sleep"
    /\ now >= wake[t]
    /\ wake' = [wake EXCEPT ![t] = 0]
    /\ Goto(t, "while")
    /\ UNCHANGED <<unchangedByLoop, last_scan, next_scan, counters, cycle_end>>

LoopStep(t) ==
    \/ LoopWhile(t)
    \/ LoopCheck(t)
    \/ ScanRotate(t)
    \/ ScanPipeline(t)
    \/ ScanLastScan(t)
    \/ ScanTotal(t)
    \/ ScanSuccessful(t)
    \/ ScanSummary(t)
    \/ ExceptTotal(t)
    \/ ExceptFailed(t)
    \/ ExceptNotify(t)
    \/ LoopReschedule(t)
    \/ LoopWake(t)

\* Positions at which a loop thread waits (time.sleep, network I/O) or does
\* not run.  Every other statement takes no time at the clock's resolution.
Waiting == {"none", "dead", "sleep", "rotate", "pipeline", "summary", "except_notify"}

\* the clock advances by one poll period
Tick ==
    /\ now + PollSeconds <= MaxTime
    /\ main_pc = "idle"
    /\ \A t \in Threads : pc[t] \in Waiting
    /\ now' = now + PollSeconds
    /\ UNCHANGED <<scan_interval, enabled, running, thread, last_scan, next_scan,
                   counters, config_interval, main_pc, calls, last_call, loopVars,
                   trigger_pending, dbVars, pipeVars>>

(***************************************************************************)
(* LearningDatabase                                                        *)
(***************************************************************************)
FeedbackKinds == {"interested", "not_interested", "clicked"}

\* the store's clock moves in steps of a day and a half, so that a row can be
\* fresh (written at the current hour), 36 hours old, or older
ClockStep == HoursPerDay + HoursPerDay \div 2
InitClock == 2 * HoursPerDay
MaxClock == InitClock + MaxClockSteps * ClockStep

\* datetime.now().isoformat(): 'YYYY-MM-DDTHH:MM:SS...', local time, kept as
\* <<date, separator, time of day>>
isoformat(t) == <<t \div HoursPerDay, SepT, t % HoursPerDay>>

\* SQLite datetime('now', '-1 day'): 'YYYY-MM-DD HH:MM:SS' (the host clock is
\* taken to run on UTC, so that 'now' and datetime.now() agree)
sqlite_datetime_minus_1_day(t) ==
    <<(t - HoursPerDay) \div HoursPerDay, SepSpace, (t - HoursPerDay) % HoursPerDay>>

\* the hour a stored timestamp stands for
HourOf(ts) == ts[1] * HoursPerDay + ts[3]

\* SQLite compares TEXT values byte by byte, left to right
TextGreater(a, b) ==
    \/ a[1] > b[1]
    \/ a[1] = b[1] /\ a[2] > b[2]
    \/ a[1] = b[1] /\ a[2] = b[2] /\ a[3] > b[3]

\* _should_retrain: SELECT COUNT(*) FROM user_feedback
\*                  WHERE feedback_timestamp > datetime('now', '-1 day')
recent_feedback(fb, t) ==
    Cardinality({i \in DOMAIN fb :
        TextGreater(fb[i].feedback_timestamp, sqlite_datetime_minus_1_day(t))})

should_retrain(fb, t) == recent_feedback(fb, t) >= RetrainThreshold

\* record_user_feedback, lines 163-168: the label a feedback type stands for
user_interest_of(kind) ==
    IF kind = "interested" THEN 1
    ELSE IF kind = "not_interested" THEN 0
    ELSE None

\* SELECT ... FROM articles WHERE user_interest IS NOT NULL
labeled_rows(arts) ==
    {<<i, arts[i].user_interest>> : i \in {j \in DOMAIN arts : arts[j].user_interest # None}}

\* (variant: any non-empty training set is accepted)
enough_training_data_nonempty(n) == n > 0

\* _train_model, line 330: training goes on only with at least 50 rows
enough_training_data(n) == n >= MinTrainingExamples

EmptyTx == [feedback |-> <<>>, interest |-> <<>>]

\* (variant: the INSERT is not committed before the gate is evaluated)
committed_feedback_lost(fb, t) == fb

\* conn.commit(), line 175: the pending INSERT reaches the user_feedback table
committed_feedback(fb, t) == fb \o t.feedback

\* (variant: the UPDATE also resets the score of the rows it matches)
committed_articles_rescored(arts, t) ==
    [i \in DOMAIN arts |->
        IF \E k \in DOMAIN t.interest : t.interest[k].article_id = i
        THEN [arts[i] EXCEPT !.user_interest = t.interest[1].user_interest,
                             !.relevance_score = [num |-> 0, den |-> @.den]]
        ELSE arts[i]]

\* conn.commit(), line 175: the pending UPDATE reaches the rows it matches
committed_articles(arts, t) ==
    [i \in DOMAIN arts |->
        IF \E k \in DOMAIN t.interest : t.interest[k].article_id = i
        THEN [arts[i] EXCEPT !.user_interest = t.interest[1].user_interest]
        ELSE arts[i]]

\* vectorizer / classifier objects; made_by tells the objects of one training
\* pass from those of another (the pass of the fb_calls-th feedback call)
NoObject == [state |-> "none", examples |-> 0, made_by |-> 0]
Unfitted == [state |-> "unfitted", examples |-> 0, made_by |-> fb_calls]
Fitted(n) == [state |-> "fitted", examples |-> n, made_by |-> fb_calls]

\* no snapshot of the classifier fields: no training pass is under way
NoSnapshot == <<NoObject, NoObject, FALSE>>

\* predict_interest has not read the field (yet)
NotRead == [state |-> "not_read", examples |-> 0, made_by |-> 0]
NoPair == [vectorizer |-> NotRead, classifier |-> NotRead]

\* the locals of record_user_feedback: its arguments, the timestamp of the
\* row it inserts, and the number of rows its UPDATE matched (cursor.rowcount)
NoRequest == [article_id |-> 0, feedback_type |-> "none",
              feedback_timestamp |-> isoformat(0), rowcount |-> 0]

\* the user_feedback row a call inserts
FeedbackRow(req) ==
    [article_id |-> req.article_id, feedback_type |-> req.feedback_type,
     feedback_timestamp |-> req.feedback_timestamp]

\* content_filter.keywords of the default configuration has three entries
ConfiguredKeywords == 3

\* extract_article_data, lines 127-134: the k-th article of the s-th site's
\* page (s = 0: a page scanned in an earlier run).  The text is identified by
\* <<s, k>>; odd articles are long, illustrated and name one keyword, even
\* ones are short notes without image or keyword.
Served(s, k) ==
    [id |-> <<s, k>>,
     title_length |-> IF k % 2 = 1 THEN 50 ELSE 5,
     content_length |-> IF k % 2 = 1 THEN 300 ELSE 100,
     keyword_matches |-> IF k % 2 = 1 THEN 1 ELSE 0,
     image_url |-> (k % 2 = 1)]

\* (variant: the keyword weight is not divided by len(keywords) and the sum
\* is not capped)
calculate_relevance_score_unnormalised(a, nKeywords) ==
    LET n == IF nKeywords > 0 THEN nKeywords ELSE 1
        score == (IF 20 <= a.title_length /\ a.title_length <= 100 THEN 2 * n ELSE 0)
               + (IF a.content_length > 200 THEN 2 * n ELSE 0)
               + (IF nKeywords > 0 THEN 4 * n * a.keyword_matches ELSE 0)
               + (IF a.image_url THEN 2 * n ELSE 0)
    IN  [num |-> score, den |-> 10 * n]

\* _calculate_relevance_score, lines 247-270, as the exact fraction num/den
\* with den = 10 * len(keywords) (10 when no keyword is configured):
\* 0.2 for a title of 20..100 characters, 0.2 for a content of more than 200,
\* 0.4 * matches / len(keywords), 0.2 for an image; min(score, 1.0)
calculate_relevance_score(a, nKeywords) ==
    LET n == IF nKeywords > 0 THEN nKeywords ELSE 1
        score == (IF 20 <= a.title_length /\ a.title_length <= 100 THEN 2 * n ELSE 0)
               + (IF a.content_length > 200 THEN 2 * n ELSE 0)
               + (IF nKeywords > 0 THEN 4 * a.keyword_matches ELSE 0)
               + (IF a.image_url THEN 2 * n ELSE 0)
    IN  [num |-> IF score < 10 * n THEN score ELSE 10 * n, den |-> 10 * n]

\* record_article, lines 126-141: the row the INSERT writes; user_interest is
\* left NULL
ArticleRow(a, nKeywords) ==
    [title |-> a.id,
     relevance_score |-> calculate_relevance_score(a, nKeywords),
     user_interest |-> None]

\* A store as earlier runs left it: nLabeled articles, each labelled by one
\* feedback event; the last nRecent of these events were written at t0.
StoredArticles(nLabeled) ==
    [i \in 1..nLabeled |->
        [ArticleRow(Served(0, i), ConfiguredKeywords) EXCEPT !.user_interest = i % 2]]

StoredFeedback(nLabeled, nRecent, t0) ==
    [i \in 1..nLabeled |->
        [article_id |-> i,
         feedback_type |-> IF i % 2 = 1 THEN "interested" ELSE "not_interested",
         feedback_timestamp |-> isoformat(IF i > nLabeled - nRecent THEN t0 ELSE 0)]]

\* the stores a run may find: an empty one, and one that is one labelled
\* article short of training and one feedback event short of the retrain gate
Histories == {<<0, 0>>, <<MinTrainingExamples - 1, RetrainThreshold - 1>>}

\* __init__ and _load_or_train_model: _load_model sets model_trained when the
\* snapshot file exists; with fewer than 50 labelled rows nothing is trained
DbInit ==
    /\ clock = InitClock
    /\ \E h \in Histories :
        /\ articles = StoredArticles(h[1])
        /\ user_feedback = StoredFeedback(h[1], h[2], InitClock)
    /\ model_file \in BOOLEAN
    /\ model_trained = model_file
    /\ vectorizer = NoObject
    /\ classifier = NoObject
    /\ fb_pc = "idle"
    /\ fb_req = NoRequest
    /\ tx = EmptyTx
    /\ train_data = {}
    /\ train_before = NoSnapshot
    /\ train_outcome = "none"
    /\ fb_calls = 0
    /\ new_articles = 0
    /\ pred_pc = "idle"
    /\ pred_used = NoPair
    /\ pred_result = "none"
    /\ pred_calls = 0

\* article ids a feedback call may name: the newest row, and an id no row
\* has (yet)
FeedbackIds == {Len(articles), Len(articles) + 1} \ {0}

classifierVars == <<vectorizer, classifier, model_trained, model_file>>
predVars == <<pred_pc, pred_used, pred_result, pred_calls>>
feedbackVars == <<articles, user_feedback, clock, fb_pc, fb_req, tx, train_data,
                  train_before, train_outcome, fb_calls, new_articles>>

\* record_user_feedback returns: its locals are gone
Return ==
    /\ fb_pc' = "idle"
    /\ fb_req' = NoRequest
    /\ train_data' = {}
    /\ train_before' = NoSnapshot

\* the except clause of record_user_feedback: the connection's context manager
\* rolls the open transaction back, the error is logged, the call returns
Rollback ==
    /\ tx' = EmptyTx
    /\ Return

\* record_user_feedback, lines 152-160: INSERT INTO user_feedback
RecordUserFeedback ==
    /\ fb_pc = "idle"
    /\ fb_calls < MaxFeedback
    /\ fb_calls' = fb_calls + 1
    /\ train_outcome' = "none"
    /\ \E id \in FeedbackIds, kind \in FeedbackKinds, ok \in BOOLEAN :
        LET req == [article_id |-> id, feedback_type |-> kind,
                    feedback_timestamp |-> isoformat(clock), rowcount |-> 0]
        IN  IF ok
            THEN /\ tx' = [EmptyTx EXCEPT !.feedback = <<FeedbackRow(req)>>]
                 /\ fb_req' = req
                 /\ fb_pc' = "update"
                 /\ UNCHANGED <<train_data, train_before>>
            ELSE Rollback
    /\ UNCHANGED <<articles, user_feedback, classifierVars, clock, new_articles,
                   predVars, schedVars, pipeVars>>

\* record_user_feedback, lines 163-173: UPDATE articles SET user_interest
FeedbackUpdate ==
    /\ fb_pc = "update"
    /\ LET v == user_interest_of(fb_req.feedback_type)
       IN  IF v = None
           THEN /\ fb_pc' = "commit"
                /\ UNCHANGED <<tx, fb_req, train_data, train_before>>
           ELSE \E ok \in BOOLEAN :
                IF ok
                THEN /\ tx' = [tx EXCEPT !.interest =
                                  <<[article_id |-> fb_req.article_id, user_interest |-> v]>>]
                     /\ fb_req' = [fb_req EXCEPT !.rowcount =
                                      IF fb_req.article_id \in DOMAIN articles THEN 1 ELSE 0]
                     /\ fb_pc' = "commit"
                     /\ UNCHANGED <<train_data, train_before>>
                ELSE Rollback
    /\ UNCHANGED <<articles, user_feedback, classifierVars, clock, train_outcome,
                   fb_calls, new_articles, predVars, schedVars, pipeVars>>

\* record_user_feedback, line 175: conn.commit()
FeedbackCommit ==
    /\ fb_pc = "commit"
    /\ \E ok \in BOOLEAN :
        IF ok
        THEN /\ user_feedback' = committed_feedback(user_feedback, tx)
             /\ articles' = committed_articles(articles, tx)
             /\ tx' = EmptyTx
             /\ fb_pc' = "gate"
             /\ UNCHANGED <<fb_req, train_data, train_before>>
        ELSE /\ Rollback
             /\ UNCHANGED <<articles, user_feedback>>
    /\ UNCHANGED <<classifierVars, clock, train_outcome, fb_calls, new_articles,
                   predVars, schedVars, pipeVars>>

\* record_user_feedback, lines 178-179: if self._should_retrain(): _train_model()
FeedbackGate ==
    /\ fb_pc = "gate"
    /\ IF should_retrain(user_feedback, clock)
       THEN /\ fb_pc' = "train"
            /\ UNCHANGED <<fb_req, train_data, train_before>>
       ELSE Return
    /\ UNCHANGED <<articles, user_feedback, classifierVars, clock, tx,
                   train_outcome, fb_calls, new_articles, predVars, schedVars, pipeVars>>

\* _train_model, lines 320-332: fetch the labelled rows, refuse below 50
TrainFetch ==
    /\ fb_pc = "train"
    /\ LET data == labeled_rows(articles)
       IN  IF enough_training_data(Cardinality(data))
           THEN /\ train_data' = data
                /\ train_before' = <<vectorizer, classifier, model_trained>>
                /\ fb_pc' = "vectorize"
                /\ UNCHANGED <<fb_req, train_outcome>>
           ELSE /\ train_outcome' = "refused"
                /\ Return
    /\ UNCHANGED <<articles, user_feedback, classifierVars, clock, tx, fb_calls,
                   new_articles, predVars, schedVars, pipeVars>>

\* _train_model, lines 344-345: a new TfidfVectorizer is assigned to
\* self.vectorizer, then fitted; fit_transform may raise
TrainVectorize ==
    /\ fb_pc = "vectorize"
    /\ \E ok \in BOOLEAN :
        IF ok
        THEN /\ vectorizer' = Fitted(Cardinality(train_data))
             /\ fb_pc' = "fit"
             /\ UNCHANGED <<fb_req, train_data, train_before, train_outcome>>
        ELSE /\ vectorizer' = Unfitted
             /\ train_outcome' = "error"
             /\ Return
    /\ UNCHANGED <<articles, user_feedback, classifier, model_trained, model_file,
                   clock, tx, fb_calls, new_articles, predVars, schedVars, pipeVars>>

\* _train_model, lines 349-357: split, assign a new MultinomialNB to
\* self.classifier, fit it, evaluate; each of these may raise
TrainFit ==
    /\ fb_pc = "fit"
    /\ \E result \in {"split_error", "fit_error", "ok"} :
        /\ classifier' = CASE result = "split_error" -> classifier
                           [] result = "fit_error" -> Unfitted
                           [] result = "ok" -> Fitted(Cardinality(train_data))
        /\ IF result = "ok"
           THEN /\ fb_pc' = "finish"
                /\ UNCHANGED <<fb_req, train_data, train_before, train_outcome>>
           ELSE /\ train_outcome' = "error"
                /\ Return
    /\ UNCHANGED <<articles, user_feedback, vectorizer, model_trained, model_file,
                   clock, tx, fb_calls, new_articles, predVars, schedVars, pipeVars>>

\* _train_model, lines 360-366: model_trained = True, then _save_model, which
\* catches its own errors (the file is written or it is not)
TrainFinish ==
    /\ fb_pc = "finish"
    /\ model_trained' = TRUE
    /\ \E saved \in BOOLEAN : model_file' = (model_file \/ saved)
    /\ train_outcome' = "trained"
    /\ Return
    /\ UNCHANGED <<articles, user_feedback, vectorizer, classifier, clock, tx,
                   fb_calls, new_articles, predVars, schedVars, pipeVars>>

\* record_article: INSERT INTO articles, user_interest left NULL.  It runs on
\* the scan thread; while record_user_feedback holds the write lock it can
\* only wait.
RecordArticle ==
    /\ fb_pc \notin {"update", "commit"}
    /\ new_articles < MaxNewArticles
    /\ new_articles' = new_articles + 1
    /\ articles' = Append(articles,
                           ArticleRow(Served(0, Len(articles) + 1), ConfiguredKeywords))
    /\ UNCHANGED <<user_feedback, classifierVars, clock, fb_pc, fb_req, tx,
                   train_data, train_before, train_outcome, fb_calls, predVars, schedVars, pipeVars>>

\* the store's clock advances between calls
ClockTick ==
    /\ fb_pc = "idle"
    /\ clock + ClockStep <= MaxClock
    /\ clock' = clock + ClockStep
    /\ UNCHANGED <<articles, user_feedback, classifierVars, fb_pc, fb_req, tx,
                   train_data, train_before, train_outcome, fb_calls, new_articles, predVars, schedVars, pipeVars>>

(***************************************************************************)
(* predict_interest, called by the scan pipeline for every scraped article *)
(* (web_scraper.py line 223).  It takes no lock: its reads of the          *)
(* classifier fields interleave with the writes of _train_model.           *)
(***************************************************************************)

\* the except clause of predict_interest: the keyword prediction answers
PredictBasic ==
    /\ pred_result' = "basic"
    /\ pred_pc' = "idle"

\* predict_interest, lines 189-191: without a trained model, keywords answer
PredictInterest ==
    /\ pred_pc = "idle"
    /\ pred_calls < MaxPredictions
    /\ pred_calls' = pred_calls + 1
    /\ pred_used' = NoPair
    /\ IF model_trained
       THEN /\ pred_pc' = "transform"
            /\ pred_result' = "none"
       ELSE PredictBasic
    /\ UNCHANGED <<classifierVars, feedbackVars, schedVars, pipeVars>>

\* line 197: self.vectorizer.transform([text]) raises on None (AttributeError)
\* and on a vectorizer that was not fitted (NotFittedError)
PredictTransform ==
    /\ pred_pc = "transform"
    /\ pred_used' = [pred_used EXCEPT !.vectorizer = vectorizer]
    /\ IF vectorizer.state = "fitted"
       THEN /\ pred_pc' = "predict"
            /\ UNCHANGED pred_result
       ELSE PredictBasic
    /\ UNCHANGED <<pred_calls, classifierVars, feedbackVars, schedVars, pipeVars>>

\* line 200: self.classifier.predict(text_vector) raises on None and on an
\* unfitted classifier; given the vector of another pass's vectorizer it
\* raises when the feature counts differ and answers when they agree
PredictClassify ==
    /\ pred_pc = "predict"
    /\ pred_used' = [pred_used EXCEPT !.classifier = classifier]
    /\ \E same_width \in BOOLEAN :
        IF /\ classifier.state = "fitted"
           /\ classifier.made_by = pred_used.vectorizer.made_by \/ same_width
        THEN /\ pred_pc' = "proba"
             /\ UNCHANGED pred_result
        ELSE PredictBasic
    /\ UNCHANGED <<pred_calls, classifierVars, feedbackVars, schedVars, pipeVars>>

\* lines 201-207: self.classifier.predict_proba(text_vector), a second read of
\* the field; then the prediction of line 200 is returned
PredictProba ==
    /\ pred_pc = "proba"
    /\ IF classifier.state = "fitted"
       THEN /\ pred_result' = "model"
            /\ pred_pc' = "idle"
       ELSE PredictBasic
    /\ UNCHANGED <<pred_used, pred_calls, classifierVars, feedbackVars, schedVars, pipeVars>>

(***************************************************************************)
(* WebScraper.scan_websites: one pass over the configured sites            *)
(***************************************************************************)

\* what an entry of config['websites'] may be: a site that answers, a site
\* whose fetch fails, a dict without 'url', and an entry that is no dict
SiteKinds == {"ok", "down", "no_url", "not_a_dict"}

WebsiteConfigs == UNION {[1..n -> SiteKinds] : n \in 1..MaxSites}

IsSubSeq(sub, n) == \A i \in 1..(Len(sub) - 1) : sub[i] < sub[i + 1] /\ sub[i + 1] <= n

\* the strictly increasing index sequences over 1..n: the articles of a
\* page that filter_articles may keep, in page order
Kept(n) == {q \in UNION {[1..m -> 1..n] : m \in 0..n} : IsSubSeq(q, n)}

ScanInit ==
    /\ websites \in WebsiteConfigs
    /\ scan_pc = "idle"
    /\ site_idx = 0
    /\ art_idx = 0
    /\ scraped = 0
    /\ filtered = <<>>
    /\ results = <<>>
    /\ notified = <<>>
    /\ record_failed = <<>>
    /\ accepted = {}
    /\ predicted = {}

\* (variant: filter_articles returns the whole page)
filter_articles_keeps_all(site, n, keep) == [i \in 1..n |-> Served(site, i)]

\* filter_articles, lines 140-149, for a page of n articles of which
\* is_relevant returned True for those at the positions keep
filter_articles(site, n, keep) == [i \in DOMAIN keep |-> Served(site, keep[i])]

\* what scan_websites leaves alone: the feedback path, the classifier, the
\* scheduler, the channel's handler and the filter's configuration
scanFrame == <<user_feedback, classifierVars, clock, fb_pc, fb_req, tx, train_data,
               train_before, train_outcome, fb_calls, new_articles, predVars,
               schedVars, cbVars, filterVars, scoreVars, basic_result, cycleVars>>

\* (variant: a storage error leaves record_article and reaches the handler
\* of scan_websites)
StorageErrorEscapes == "except"

\* record_article, lines 146-147: the error is logged and the call returns;
\* scan_websites goes on with the next article
StorageErrorTarget == "article"

\* scan_websites, lines 36-37
ScanWebsites ==
    /\ UNCHANGED scanFrame
    /\ scan_pc = "idle"
    /\ scan_pc' = "site"
    /\ site_idx' = 1
    /\ results' = <<>>
    /\ UNCHANGED <<websites, scraped, art_idx, filtered, notified, record_failed, articles,
                   accepted, predicted>>

\* scan_websites, lines 39-42: scrape_website and filter_articles for the next
\* site.  website['url'] (line 67) raises for an entry without 'url' or an
\* entry that is no dict; a failing fetch is caught in scrape_website and
\* yields []; is_relevant decides for each article of the page.
ScanSite ==
    /\ UNCHANGED scanFrame
    /\ scan_pc = "site"
    /\ IF site_idx > Len(websites)
       THEN /\ scan_pc' = "returned"
            /\ UNCHANGED <<filtered, art_idx, scraped, accepted>>
       ELSE CASE websites[site_idx] = "ok" ->
                    /\ \E n \in 0..(MaxArticles - scraped) :
                          /\ scraped' = scraped + n
                          /\ \E keep \in Kept(n) :
                                /\ filtered' = filter_articles(site_idx, n, keep)
                                /\ accepted' = accepted \cup
                                      {Served(site_idx, keep[i]).id : i \in DOMAIN keep}
                    /\ art_idx' = 1
                    /\ scan_pc' = "article"
              [] websites[site_idx] = "down" ->
                    /\ filtered' = <<>>
                    /\ art_idx' = 1
                    /\ scan_pc' = "article"
                    /\ UNCHANGED <<scraped, accepted>>
              [] OTHER ->
                    /\ scan_pc' = "except"
                    /\ UNCHANGED <<filtered, art_idx, scraped, accepted>>
    /\ UNCHANGED <<websites, site_idx, results, notified, record_failed, articles,
                   predicted>>

\* scan_websites, lines 44-51: process_article (None when it failed),
\* results.append, create_summary_image
ScanArticle ==
    /\ UNCHANGED scanFrame
    /\ scan_pc = "article"
    /\ IF art_idx > Len(filtered)
       THEN /\ site_idx' = site_idx + 1
            /\ scan_pc' = "site"
            /\ UNCHANGED <<art_idx, results>>
       ELSE \E processed \in BOOLEAN :
              IF processed
              THEN /\ results' = Append(results, filtered[art_idx].id)
                   /\ scan_pc' = "interest"
                   /\ UNCHANGED <<site_idx, art_idx>>
              ELSE /\ art_idx' = art_idx + 1
                   /\ UNCHANGED <<site_idx, scan_pc, results>>
    /\ UNCHANGED <<websites, scraped, filtered, notified, record_failed, articles,
                   accepted, predicted>>

\* scan_websites, line 54: is_interesting never raises, it answers by the
\* model, by the keyword rule or by is_high_priority
ScanInterest ==
    /\ UNCHANGED scanFrame
    /\ scan_pc = "interest"
    /\ \E interesting \in BOOLEAN :
          /\ scan_pc' = IF interesting THEN "notify" ELSE "record"
          /\ predicted' = IF interesting THEN predicted \cup {filtered[art_idx].id}
                           ELSE predicted
    /\ UNCHANGED <<websites, scraped, site_idx, art_idx, filtered, results, notified,
                   record_failed, articles, accepted>>

\* scan_websites, line 55: send_notification returns False when the channel
\* is disabled or the send failed, True when the message was delivered
ScanNotify ==
    /\ UNCHANGED scanFrame
    /\ scan_pc = "notify"
    /\ \E delivered \in BOOLEAN :
          notified' = IF delivered THEN Append(notified, filtered[art_idx].id)
                      ELSE notified
    /\ scan_pc' = "record"
    /\ UNCHANGED <<websites, scraped, site_idx, art_idx, filtered, results, record_failed,
                   articles, accepted, predicted>>

\* scan_websites, line 58: record_article.  The INSERT is committed, or the
\* database fails and the except clause of record_article logs the error.
ScanRecord ==
    /\ UNCHANGED scanFrame
    /\ scan_pc = "record"
    /\ \E stored \in BOOLEAN :
          IF stored
          THEN /\ articles' = Append(articles,
                                     ArticleRow(filtered[art_idx], ConfiguredKeywords))
               /\ scan_pc' = "article"
               /\ art_idx' = art_idx + 1
               /\ UNCHANGED record_failed
          ELSE /\ record_failed' = Append(record_failed, filtered[art_idx].id)
               /\ scan_pc' = StorageErrorTarget
               /\ art_idx' = IF StorageErrorTarget = "article" THEN art_idx + 1
                             ELSE art_idx
               /\ UNCHANGED articles
    /\ UNCHANGED <<websites, scraped, site_idx, filtered, results, notified, accepted,
                   predicted>>

\* scan_websites, lines 60-61: the handler logs website.get('url') and the
\* loop goes on with the next site; an entry that is no dict has no get(),
\* the AttributeError leaves scan_websites
ScanExcept ==
    /\ UNCHANGED scanFrame
    /\ scan_pc = "except"
    /\ IF websites[site_idx] = "not_a_dict"
       THEN /\ scan_pc' = "raised"
            /\ UNCHANGED site_idx
       ELSE /\ scan_pc' = "site"
            /\ site_idx' = site_idx + 1
    /\ UNCHANGED <<websites, scraped, art_idx, filtered, results, notified, record_failed,
                   articles, accepted, predicted>>

(***************************************************************************)
(* TelegramNotifier: the buttons under a notification and their handler    *)
(***************************************************************************)

Buttons == {"interested", "not_interested", "open_link", "stats"}

\* _create_feedback_keyboard, lines 165-170: the callback_data of a button,
\* as the sequence of the pieces its text has between underscores; the
\* eight hex digits of the article hash stand for the article
callback_data(button, hash) ==
    CASE button = "interested"     -> <<"interested", hash>>
      [] button = "not_interested" -> <<"not", "interested", hash>>
      [] button = "open_link"      -> <<"open", "link", hash>>
      [] button = "stats"          -> <<"stats">>

\* str.split('_', maxsplit): at most maxsplit cuts from the left; each part
\* is again a sequence of pieces, the last part keeps its underscores
split(pieces, maxsplit) ==
    IF Len(pieces) <= maxsplit + 1
    THEN [i \in DOMAIN pieces |-> <<pieces[i]>>]
    ELSE [i \in 1..(maxsplit + 1) |->
            IF i <= maxsplit THEN <<pieces[i]>>
            ELSE SubSeq(pieces, maxsplit + 1, Len(pieces))]

\* what the handler leaves alone
cbFrame == <<dbVars, schedVars, scanVars, filterVars, scoreVars, basic_result, cycleVars>>

NoQuery == [button |-> "none", article |-> <<0, 0>>, data |-> <<>>]

CbInit ==
    /\ cb_pc = "idle"
    /\ cb_query = NoQuery
    /\ cb_action = "none"
    /\ acknowledged = <<>>
    /\ store_calls = <<>>
    /\ presses = 0

\* the user presses a button under the notification of an article
Press ==
    /\ UNCHANGED cbFrame
    /\ cb_pc = "idle"
    /\ presses < MaxPresses
    /\ \E i \in DOMAIN notified, b \in Buttons :
          cb_query' = [button |-> b, article |-> notified[i],
                       data |-> callback_data(b, notified[i])]
    /\ presses' = presses + 1
    /\ cb_pc' = "handle"
    /\ UNCHANGED <<cb_action, acknowledged, store_calls>>

\* _handle_callback, lines 248-264
HandleCallback ==
    /\ UNCHANGED cbFrame
    /\ cb_pc = "handle"
    /\ LET parts == split(cb_query.data, 2)
       IN  IF Len(parts) < 2
           THEN cb_pc' = "idle" /\ cb_action' = "none"
           ELSE LET action == parts[1]
                IN  CASE action = <<"interested">> ->
                            cb_pc' = "feedback" /\ cb_action' = "interested"
                      [] action = <<"not", "interested">> ->
                            cb_pc' = "feedback" /\ cb_action' = "not_interested"
                      [] action = <<"open", "link">> ->
                            cb_pc' = "idle" /\ cb_action' = "open_link"
                      [] action = <<"stats">> ->
                            cb_pc' = "idle" /\ cb_action' = "stats"
                      [] OTHER ->
                            cb_pc' = "idle" /\ cb_action' = "none"
    /\ UNCHANGED <<cb_query, acknowledged, store_calls, presses>>

\* _process_feedback, lines 272-291: the message is edited and the feedback
\* is logged; the store is not called
ProcessFeedback ==
    /\ UNCHANGED cbFrame
    /\ cb_pc = "feedback"
    /\ acknowledged' = Append(acknowledged, <<cb_action, split(cb_query.data, 2)[2]>>)
    /\ cb_pc' = "idle"
    /\ UNCHANGED <<cb_query, cb_action, store_calls, presses>>

(***************************************************************************)
(* ContentFilter.is_relevant                                               *)
(*                                                                         *)
(* Texts are sequences of characters.  An article's title and content are  *)
(* a short varied part (the core) set between filler words, so that the    *)
(* length and quality thresholds of the filter can be met.                 *)
(***************************************************************************)
MinContentLength == 100   \* content_filter.min_content_length
MinTitleLength == 10      \* "len(title) < 10"
MaxTitleLength == 200     \* "len(title) > 200"
MinWords == 20            \* "len(words) < 20"

\* the characters re's \w matches, of those that occur in the model
FillerLetters == <<"c", "d", "e", "f", "g", "h", "i">>
WordChars == {"a", "b", "A"} \cup {FillerLetters[i] : i \in DOMAIN FillerLetters}

\* characters of the varied part: letters, '+', '!' and the blank
CoreChars == {"a", "A", "+", "!", " "}

\* str.lower() / str.isupper() on one character
LowerChar(c) == IF c = "A" THEN "a" ELSE c
IsUpper(c) == c = "A"

\* str.lower()
lower(text) == [i \in DOMAIN text |-> LowerChar(text[i])]

\* all character sequences of at most n characters over chars
Strings(chars, n) == UNION {[1..m -> chars] : m \in 0..n}

\* get_text(strip=True): a scraped text neither begins nor ends with a blank
Stripped(text) == text = <<>> \/ (text[1] # " " /\ text[Len(text)] # " ")

Cores == {c \in Strings(CoreChars, MaxCore) : Stripped(c)}

\* configured terms: a word, possibly ending in '+' ("18+", "c++")
Terms == {t \in Strings({"a", "A", "+"}, MaxTerm) : t # <<>> /\ t[1] \in WordChars}

\* a b with one blank between them, blanks only between non-empty texts
Glue(a, b) == IF a = <<>> THEN b ELSE IF b = <<>> THEN a ELSE a \o <<" ">> \o b

\* the i-th filler word: four times the same letter, seven different words
FillerWord(i) ==
    LET c == FillerLetters[((i - 1) % Len(FillerLetters)) + 1] IN <<c, c, c, c>>

RECURSIVE FillerRun(_, _)
FillerRun(i, j) == IF i > j THEN <<>> ELSE Glue(FillerWord(i), FillerRun(i + 1, j))

\* a text of n filler words with the core in their middle
Text(core, n) ==
    Glue(Glue(FillerRun(1, n \div 2), core), FillerRun(n \div 2 + 1, n))

\* re's \b at position p (before text[p]): exactly one of the characters on
\* its two sides is a word character; the ends of the text count as non-word
WordBoundary(text, p) ==
    (p > 1 /\ text[p - 1] \in WordChars) # (p <= Len(text) /\ text[p] \in WordChars)

\* the literal term stands at position p, case ignored (re.IGNORECASE)
LiteralAt(term, text, p) ==
    /\ p + Len(term) - 1 <= Len(text)
    /\ \A k \in DOMAIN term : LowerChar(text[p + k - 1]) = LowerChar(term[k])

\* re.compile(r'\b' + re.escape(term) + r'\b', re.IGNORECASE).search(text)
pattern_search(term, text) ==
    \E p \in 1..(Len(text) + 1) :
        /\ WordBoundary(text, p)
        /\ LiteralAt(term, text, p)
        /\ WordBoundary(text, p + Len(term))

\* _contains_blacklisted_terms, lines 60-65
contains_blacklisted_terms(blacklist, text) ==
    \E i \in DOMAIN blacklist : pattern_search(blacklist[i], text)

\* _contains_keywords, lines 50-58: no keywords configured accepts all
contains_keywords(keywords, text) ==
    \/ keywords = <<>>
    \/ \E i \in DOMAIN keywords : pattern_search(keywords[i], text)

\* str.split(): the words of a text are its maximal runs of non-blank
\* characters; WordStarts is the set of positions where a word begins
WordStarts(text) ==
    {i \in DOMAIN text : text[i] # " " /\ (i = 1 \/ text[i - 1] = " ")}

\* the last position of the word that begins at position i
RECURSIVE WordEnd(_, _)
WordEnd(text, i) ==
    IF i = Len(text) \/ text[i + 1] = " " THEN i ELSE WordEnd(text, i + 1)

\* _is_low_quality_content, lines 87-104: fewer than 20 words, fewer than
\* 30 % different words, more than 5 % '!' and '?'
is_low_quality_content(content) ==
    LET text == lower(content)
        starts == WordStarts(text)
        words == {SubSeq(text, i, WordEnd(text, i)) : i \in starts}
        punctuation == Cardinality({k \in DOMAIN content : content[k] = "!"})
    IN  \/ Cardinality(starts) < MinWords
        \/ 10 * Cardinality(words) < 3 * Cardinality(starts)
        \/ 100 * punctuation > 5 * Len(content)

\* _additional_relevance_checks, lines 67-85
additional_relevance_checks(article) ==
    LET title == article.title
        upper == Cardinality({k \in DOMAIN title : IsUpper(title[k])})
    IN  /\ ~(Len(title) < MinTitleLength \/ Len(title) > MaxTitleLength)
        /\ ~is_low_quality_content(article.content)
        /\ ~(10 * upper > 3 * Len(title))

\* is_relevant, lines 27-29
combined_text(article) == lower(article.title) \o <<" ">> \o lower(article.content)

\* is_relevant, lines 31-44
is_relevant(config, article) ==
    LET text == combined_text(article)
    IN  IF Len(text) < MinContentLength THEN FALSE
        ELSE IF contains_blacklisted_terms(config.blacklist, text) THEN FALSE
        ELSE IF ~contains_keywords(config.keywords, text) THEN FALSE
        ELSE additional_relevance_checks(article)

\* the keyword lists of the model: none, a word of the filler, a word that
\* occurs in no text
KeywordLists == {<<>>, <<FillerWord(1)>>, <<<<"b">>>>}

\* the blacklists of the model: none, or one term
Blacklists == {<<>>} \cup {<<t>> : t \in Terms}

\* the varied part of a title: nothing, a word, a word ending in '+', a
\* word in capitals
TitleCores == {<<>>, <<"a">>, <<"a", "+">>, <<"A", "A", "A", "A", "A">>}

\* the articles of the model: a title of no or of two filler words around
\* its core, a content of no or of twenty filler words around its core
FilterArticles ==
    {[title |-> Text(tc, tn), content |-> Text(cc, cn)] :
        tc \in TitleCores, tn \in {0, 2}, cc \in Cores, cn \in {0, MinWords}}

NoArticle == [title |-> <<>>, content |-> <<>>]

\* is_relevant has not answered (yet)
NotReturned == [returned |-> FALSE, value |-> FALSE]

FilterInit ==
    /\ flt_config \in [keywords : KeywordLists, blacklist : Blacklists]
    /\ flt_article \in FilterArticles
    /\ flt_result = NotReturned

\* what the filter leaves alone
filterFrame == <<dbVars, schedVars, scanVars, cbVars, scoreVars, basic_result,
                 cycleVars>>

\* filter_articles, line 145: is_relevant(article) is called and answers
IsRelevant ==
    /\ UNCHANGED filterFrame
    /\ ~flt_result.returned
    /\ flt_result' = [returned |-> TRUE, value |-> is_relevant(flt_config, flt_article)]
    /\ UNCHANGED <<flt_config, flt_article>>

(***************************************************************************)
(* The relevance scores: LearningDatabase._calculate_relevance_score (the  *)
(* score record_article stores) and ContentFilter.calculate_relevance_score*)
(***************************************************************************)

\* the keywords a configuration may list
ScoreTerms == {"k1", "k2"}

\* keyword lists of up to MaxKeywords entries, the same keyword may recur
ScoreKeywordLists == UNION {[1..n -> ScoreTerms] : n \in 0..MaxKeywords}

\* what the scores read of an article: the lengths of title and content
\* around the thresholds of the code, the keywords its text matches, whether
\* it has an image, whether its content is low quality, whether it is recent
ScoreArticles ==
    [title_length : {0, 19, 20, 100, 101},
     content_length : {0, 200, 201, 2000},
     mentions : SUBSET ScoreTerms,
     image_url : BOOLEAN,
     low_quality : BOOLEAN,
     recent : BOOLEAN]

\* lines 261-262 / 157-158: sum(1 for keyword in keywords if it matches)
keyword_matches(keywords, mentions) ==
    Cardinality({i \in DOMAIN keywords : keywords[i] \in mentions})

\* ContentFilter.calculate_relevance_score, lines 154-178, as the exact
\* fraction num/den with den = 10000 * len(keywords) (10000 without
\* keywords): 0.4 * matches / len(keywords); min(len(text) / 1000, 1.0) * 0.2
\* for a text of at least the minimum length; 0.3 unless the content is low
\* quality; 0.1 for a recent article; min(score, 1.0)
filter_relevance_score(a, nKeywords) ==
    LET n == IF nKeywords > 0 THEN nKeywords ELSE 1
        text_length == a.title_length + 1 + a.content_length
        score == (IF nKeywords > 0 THEN 4000 * a.keyword_matches ELSE 0)
               + (IF text_length >= MinContentLength
                  THEN 2 * n * (IF text_length < 1000 THEN text_length ELSE 1000)
                  ELSE 0)
               + (IF a.low_quality THEN 0 ELSE 3000 * n)
               + (IF a.recent THEN 1000 * n ELSE 0)
    IN  [num |-> IF score < 10000 * n THEN score ELSE 10000 * n, den |-> 10000 * n]

NoScore == [num |-> 0, den |-> 1]
NotScored == [returned |-> FALSE, stored |-> NoScore, filter |-> NoScore]

ScoreInit ==
    /\ score_keywords \in ScoreKeywordLists
    /\ score_article \in ScoreArticles
    /\ score_result = NotScored

\* what the scores leave alone
scoreFrame == <<dbVars, schedVars, scanVars, cbVars, filterVars, basic_result,
                cycleVars>>

\* record_article, line 121: the score of the article is computed (and
\* stored with its row); the filter's score of the same article
CalculateScores ==
    /\ UNCHANGED scoreFrame
    /\ ~score_result.returned
    /\ LET a == [title_length |-> score_article.title_length,
                 content_length |-> score_article.content_length,
                 image_url |-> score_article.image_url,
                 low_quality |-> score_article.low_quality,
                 recent |-> score_article.recent,
                 keyword_matches |-> keyword_matches(score_keywords,
                                                     score_article.mentions)]
       IN  score_result' =
               [returned |-> TRUE,
                stored |-> calculate_relevance_score(a, Len(score_keywords)),
                filter |-> filter_relevance_score(a, Len(score_keywords))]
    /\ UNCHANGED <<score_keywords, score_article>>

\* no score is being computed
ScoreIdle ==
    /\ score_keywords = <<>>
    /\ score_article = [title_length |-> 0, content_length |-> 0, mentions |-> {},
                        image_url |-> FALSE, low_quality |-> FALSE, recent |-> FALSE]
    /\ score_result = NotScored

\* no keyword prediction has been made
BasicIdle == basic_result = NotReturned

(***************************************************************************)
(* predict_interest answered by the keyword rule                           *)
(* (LearningDatabase._basic_interest_prediction) for a processed article   *)
(***************************************************************************)

\* re.sub(r'\s+', ' ', content): every run of blanks becomes one blank
StartsRun(pair) == ~(pair[1] = " " /\ pair[2] = " ")
CollapseBlanks(text) ==
    LET pairs == [i \in DOMAIN text |-> <<IF i = 1 THEN "" ELSE text[i - 1], text[i]>>]
        kept == SelectSeq(pairs, StartsRun)
    IN  [i \in DOMAIN kept |-> kept[i][2]]

\* the characters re.sub(r'[^\w\s\.\,\!\?\-\:\;]', '', content) keeps
KeptChars == WordChars \cup {" ", "!"}

\* str.strip()
strip(text) ==
    LET inked == {i \in DOMAIN text : text[i] # " "}
    IN  IF inked = {} THEN <<>>
        ELSE SubSeq(text,
                    CHOOSE i \in inked : \A j \in inked : i <= j,
                    CHOOSE i \in inked : \A j \in inked : j <= i)

\* clean_content, lines 198-209 (the texts of the model hold no HTML
\* entities, line 204 finds nothing to remove)
IsKeptChar(c) == c \in KeptChars
clean_content(content) == strip(SelectSeq(CollapseBlanks(content), IsKeptChar))

\* process_article, lines 154-163: the copy with its cleaned content
process_article(article) ==
    [title |-> article.title, content |-> article.content,
     cleaned_content |-> clean_content(article.content)]

\* "term.lower() in combined_text"
occurs_in(term, text) ==
    \E p \in 1..(Len(text) - Len(term) + 1) :
        \A k \in DOMAIN term : text[p + k - 1] = LowerChar(term[k])

\* _basic_interest_prediction, lines 217-234
basic_interest_prediction(config, article) ==
    LET text == lower(article.title) \o <<" ">> \o lower(article.cleaned_content)
    IN  IF \E i \in DOMAIN config.blacklist : occurs_in(config.blacklist[i], text)
        THEN FALSE
        ELSE \E i \in DOMAIN config.keywords : occurs_in(config.keywords[i], text)

\* what the keyword rule leaves alone
basicFrame == <<dbVars, schedVars, scanVars, cbVars, filterVars, scoreVars, cycleVars>>

\* predict_interest, lines 188-191 and 209-211, for the article
\* scan_websites processed: the classifier is untrained, or the model call
\* raises because no fitted vectorizer is in memory; the keyword rule answers
PredictFallback ==
    /\ UNCHANGED basicFrame
    /\ ~basic_result.returned
    /\ ~model_trained \/ vectorizer.state # "fitted"
    /\ basic_result' =
          [returned |-> TRUE,
           value |-> basic_interest_prediction(flt_config, process_article(flt_article))]

(***************************************************************************)
(* _perform_scan in detail: the proxy controller, the pipeline's result,   *)
(* the summary; get_status() called from another thread                    *)
(***************************************************************************)

\* a thread's cycle before rotate_ip was called
NotStarted == [rotation |-> "none", fetch |-> "none", found |-> 0, summary |-> "none"]

NoStatus == [returned |-> FALSE, total_scans |-> 0, successful_scans |-> 0,
             failed_scans |-> 0]

CycleIdle ==
    /\ tor = [enabled |-> FALSE, connected |-> FALSE]
    /\ channel_enabled = FALSE
    /\ cycle = [t \in Threads |-> NotStarted]
    /\ status_pc = "idle"
    /\ status = NoStatus

\* TorManager.__init__ and start(): tor.enabled from the configuration,
\* _connected set when the connection test passed
TorStates == {st \in [enabled : BOOLEAN, connected : BOOLEAN] : st.connected => st.enabled}

\* (variant: rotate_ip without its except clauses, a controller error leaves it)
rotate_ip_uncaught(manager, controller_ok) ==
    IF ~manager.connected \/ ~manager.enabled
    THEN [raised |-> FALSE, value |-> FALSE]
    ELSE [raised |-> ~controller_ok, value |-> controller_ok]

\* rotate_ip, lines 81-103: False when not connected or not enabled, True
\* after NEWNYM, False when the controller raised
rotate_ip(manager, controller_ok) ==
    IF ~manager.connected \/ ~manager.enabled
    THEN [raised |-> FALSE, value |-> FALSE]
    ELSE [raised |-> FALSE, value |-> controller_ok]

\* what a step of _perform_scan or get_status leaves alone
cycleFrame == <<scan_interval, enabled, running, thread, config_interval, now, main_pc,
                calls, last_call, trigger_pending, last_scan, next_scan, counters, wake,
                dbVars, scanVars, cbVars, filterVars, scoreVars, basic_result, tor,
                channel_enabled>>

\* lines 87-88, inside the try block: the value rotate_ip returns is not
\* looked at, an exception leaving it would reach the except clause
CycleRotate(t) ==
    /\ UNCHANGED cycleFrame
    /\ pc[t] = "rotate"
    /\ \E controller_ok \in BOOLEAN :
        LET rotated == rotate_ip(tor, controller_ok)
        IN  /\ Goto(t, IF rotated.raised THEN ExceptTarget ELSE "pipeline")
            /\ cycle' = [cycle EXCEPT ![t] =
                  [NotStarted EXCEPT !.rotation = IF rotated.raised THEN "raised"
                                                   ELSE IF rotated.value THEN "true"
                                                   ELSE "false"]]
    /\ UNCHANGED <<cycle_end, status_pc, status>>

\* line 91: scan_websites returns its results or raises
CyclePipeline(t) ==
    /\ UNCHANGED cycleFrame
    /\ pc[t] = "pipeline"
    /\ \/ \E found \in 0..MaxArticles :
            /\ Goto(t, "last_scan")
            /\ cycle' = [cycle EXCEPT ![t].fetch = "returned", ![t].found = found]
       \/ /\ Goto(t, ExceptTarget)
          /\ cycle' = [cycle EXCEPT ![t].fetch = "raised"]
    /\ UNCHANGED <<cycle_end, status_pc, status>>

\* lines 103 and 113-142: _send_scan_summary returns at once for an empty
\* result list; otherwise it calls bot.send_message when the channel is
\* enabled; every error of its body is caught
CycleSummary(t) ==
    /\ UNCHANGED cycleFrame
    /\ pc[t] = "summary"
    /\ cycle' = [cycle EXCEPT ![t].summary =
                    IF cycle[t].found = 0 THEN "none"
                    ELSE IF channel_enabled THEN "sent"
                    ELSE "none"]
    /\ cycle_end' = [cycle_end EXCEPT ![t] = [kind |-> "ok", at |-> now]]
    /\ Goto(t, "reschedule")
    /\ UNCHANGED <<status_pc, status>>

\* get_status, line 160: 'total_scans': self.total_scans
GetStatusTotal ==
    /\ UNCHANGED cycleFrame
    /\ status_pc = "idle"
    /\ status' = [NoStatus EXCEPT !.total_scans = total_scans]
    /\ status_pc' = "successful_scans"
    /\ UNCHANGED <<pc, cycle, cycle_end>>

\* get_status, line 161: 'successful_scans': self.successful_scans
GetStatusSuccessful ==
    /\ UNCHANGED cycleFrame
    /\ status_pc = "successful_scans"
    /\ status' = [status EXCEPT !.successful_scans = successful_scans]
    /\ status_pc' = "failed_scans"
    /\ UNCHANGED <<pc, cycle, cycle_end>>

\* get_status, lines 162-164: 'failed_scans': self.failed_scans; the dict
\* is returned
GetStatusFailed ==
    /\ UNCHANGED cycleFrame
    /\ status_pc = "failed_scans"
    /\ status' = [status EXCEPT !.failed_scans = failed_scans, !.returned = TRUE]
    /\ status_pc' = "idle"
    /\ UNCHANGED <<pc, cycle, cycle_end>>

\* the scheduler at rest, for the specification of the store
SchedIdle == SchedInit /\ config_interval = MinInterval

\* the store at rest, for the specifications of the scheduler
DbIdle ==
    /\ DbInit
    /\ articles = <<>>
    /\ model_file = FALSE

\* the scan pipeline, the channel's handler and the filter at rest
PipeIdle ==
    /\ ScanInit
    /\ websites = <<"ok">>
    /\ CbInit
    /\ FilterInit
    /\ flt_config = [keywords |-> <<>>, blacklist |-> <<>>]
    /\ flt_article = NoArticle
    /\ ScoreIdle
    /\ BasicIdle
    /\ CycleIdle

Init == SchedInit /\ DbIdle /\ PipeIdle

Next ==
    \/ StartAlreadyRunning
    \/ Start
    \/ StartSchedule
    \/ Stop
    \/ Pause
    \/ Resume
    \/ SetScanInterval
    \/ TriggerScanNow
    \/ Tick
    \/ \E t \in Threads : LoopStep(t)

Spec == Init /\ [][Next]_vars

(***************************************************************************)
(* The scheduler left Running: started once, never stopped or paused.  The *)
(* clock runs, every runnable thread eventually takes its next step.       *)
(***************************************************************************)
LiveNext ==
    \/ Start
    \/ StartSchedule
    \/ TriggerScanNow
    \/ Tick
    \/ \E t \in Threads : LoopStep(t)

LiveSpec ==
    /\ Init
    /\ [][LiveNext]_vars
    /\ WF_vars(Tick)
    /\ WF_vars(StartSchedule)
    /\ \A t \in Threads : WF_vars(LoopStep(t))

(***************************************************************************)
(* The scheduler started once and stopped at any moment, with no start()  *)
(* after the stop().  The clock runs, every runnable thread eventually     *)
(* takes its next step.                                                    *)
(***************************************************************************)
StopNext ==
    \/ Start /\ thread = None
    \/ StartSchedule
    \/ Stop
    \/ Tick
    \/ \E t \in Threads : LoopStep(t)

StopSpec ==
    /\ Init
    /\ [][StopNext]_vars
    /\ WF_vars(Tick)
    /\ WF_vars(StartSchedule)
    /\ \A t \in Threads : WF_vars(LoopStep(t))

(***************************************************************************)
(* The store and the feedback path on their own                            *)
(***************************************************************************)
FeedbackInit == SchedIdle /\ DbInit /\ PipeIdle

FeedbackNext ==
    \/ RecordUserFeedback
    \/ FeedbackUpdate
    \/ FeedbackCommit
    \/ FeedbackGate
    \/ TrainFetch
    \/ TrainVectorize
    \/ TrainFit
    \/ TrainFinish
    \/ RecordArticle
    \/ ClockTick

FeedbackSpec == FeedbackInit /\ [][FeedbackNext]_vars

(***************************************************************************)
(* The feedback path with the scan thread's predictions running beside it  *)
(***************************************************************************)
PredictNext ==
    \/ RecordUserFeedback
    \/ FeedbackUpdate
    \/ FeedbackCommit
    \/ FeedbackGate
    \/ TrainFetch
    \/ TrainVectorize
    \/ TrainFit
    \/ TrainFinish
    \/ RecordArticle
    \/ PredictInterest
    \/ PredictTransform
    \/ PredictClassify
    \/ PredictProba

PredictSpec == FeedbackInit /\ [][PredictNext]_vars

(***************************************************************************)
(* One pass of scan_websites over the configured sites                     *)
(***************************************************************************)
ScanSpecInit ==
    /\ SchedIdle
    /\ DbIdle
    /\ ScanInit
    /\ CbInit
    /\ FilterInit
    /\ flt_config = [keywords |-> <<>>, blacklist |-> <<>>]
    /\ flt_article = NoArticle
    /\ ScoreIdle
    /\ BasicIdle
    /\ CycleIdle

ScanNext ==
    \/ ScanWebsites
    \/ ScanSite
    \/ ScanArticle
    \/ ScanInterest
    \/ ScanNotify
    \/ ScanRecord
    \/ ScanExcept

ScanSpec == ScanSpecInit /\ [][ScanNext]_vars

(***************************************************************************)
(* One pass of scan_websites over one site that answers, with the          *)
(* notification channel's handler receiving button presses for the         *)
(* articles notified so far                                                *)
(***************************************************************************)
CallbackInit == ScanSpecInit /\ websites = <<"ok">>

CallbackNext ==
    \/ ScanWebsites
    \/ ScanSite
    \/ ScanArticle
    \/ ScanInterest
    \/ ScanNotify
    \/ ScanRecord
    \/ Press
    \/ HandleCallback
    \/ ProcessFeedback

CallbackSpec == CallbackInit /\ [][CallbackNext]_vars

(***************************************************************************)
(* is_relevant applied to one article under one filter configuration       *)
(***************************************************************************)
FilterSpecInit ==
    /\ SchedIdle
    /\ DbIdle
    /\ ScanInit
    /\ websites = <<"ok">>
    /\ CbInit
    /\ FilterInit
    /\ ScoreIdle
    /\ BasicIdle
    /\ CycleIdle

FilterNext == IsRelevant

FilterSpec == FilterSpecInit /\ [][FilterNext]_vars


(***************************************************************************)
(* The relevance scores of one article under one keyword list              *)
(***************************************************************************)
ScoreSpecInit ==
    /\ SchedIdle
    /\ DbIdle
    /\ ScanInit
    /\ websites = <<"ok">>
    /\ CbInit
    /\ FilterInit
    /\ flt_config = [keywords |-> <<>>, blacklist |-> <<>>]
    /\ flt_article = NoArticle
    /\ ScoreInit
    /\ BasicIdle
    /\ CycleIdle

ScoreNext == CalculateScores

ScoreSpec == ScoreSpecInit /\ [][ScoreNext]_vars


(***************************************************************************)
(* predict_interest on a classifier that is untrained, or whose snapshot   *)
(* file only set the trained flag, for one article under one configuration *)
(***************************************************************************)
FallbackSpecInit ==
    /\ SchedIdle
    /\ DbInit
    /\ articles = <<>>
    /\ ScanInit
    /\ websites = <<"ok">>
    /\ CbInit
    /\ FilterInit
    /\ ScoreIdle
    /\ BasicIdle
    /\ CycleIdle

FallbackNext == PredictFallback

FallbackSpec == FallbackSpecInit /\ [][FallbackNext]_vars


(***************************************************************************)
(* The scheduler started once and left running, its cycles in detail;      *)
(* get_status() is called from another thread at any moment.               *)
(***************************************************************************)
CycleSpecInit ==
    /\ SchedIdle
    /\ DbIdle
    /\ ScanInit
    /\ websites = <<"ok">>
    /\ CbInit
    /\ FilterInit
    /\ flt_config = [keywords |-> <<>>, blacklist |-> <<>>]
    /\ flt_article = NoArticle
    /\ ScoreIdle
    /\ basic_result = NotReturned
    /\ tor \in TorStates
    /\ channel_enabled \in BOOLEAN
    /\ cycle = [t \in Threads |-> NotStarted]
    /\ status_pc = "idle"
    /\ status = NoStatus

CycleNext ==
    \/ Start /\ thread = None
    \/ StartSchedule
    \/ Tick
    \/ GetStatusTotal
    \/ GetStatusSuccessful
    \/ GetStatusFailed
    \/ \E t \in Threads :
        \/ LoopWhile(t)
        \/ LoopCheck(t)
        \/ CycleRotate(t)
        \/ CyclePipeline(t)
        \/ ScanLastScan(t)
        \/ ScanTotal(t)
        \/ ScanSuccessful(t)
        \/ CycleSummary(t)
        \/ ExceptTotal(t)
        \/ ExceptFailed(t)
        \/ ExceptNotify(t)
        \/ LoopReschedule(t)
        \/ LoopWake(t)

CycleSpec == CycleSpecInit /\ [][CycleNext]_vars


\* a cycle that ends by this time can be followed by another before MaxTime
Horizon == MaxTime - MaxInterval

(***************************************************************************)
(* Properties of the scheduler                                             *)
(***************************************************************************)

\* C1: while the scheduler is paused (is_paused(): not enabled, running) the
\* loop starts no scan cycle, even when now >= next_scan at a poll tick.
C1_NoCycleStartsWhilePaused ==
    [][~(is_paused /\ \E t \in Threads : pc[t] = "check" /\ pc'[t] = "rotate")]_vars

\* C2: no failure inside a scan cycle ends the scheduling loop; a loop thread
\* exits only from its "while self.running" test, with the running flag cleared.
C2_LoopExitsOnlyWhenStopped ==
    [][\A t \in Threads :
          (pc[t] # "dead" /\ pc'[t] = "dead") => (pc[t] = "while" /\ ~running)]_vars

\* C2 witness: a cycle has failed and its thread is back at the poll test
C2_Witness ==
    \E t \in Threads : cycle_end[t].kind = "failed" /\ pc[t] = "check" /\ running

\* C3: the rescheduling that follows a failed cycle leaves next_scan strictly
\* later than the moment the failed cycle ended.
C3_FailedCycleReschedulesLater ==
    [][\A t \in Threads :
          (pc[t] = "reschedule" /\ cycle_end[t].kind = "failed" /\ pc'[t] = "sleep")
              => next_scan' > cycle_end[t].at]_vars

\* C4: after every completed scan cycle total_scans = successful_scans +
\* failed_scans.
C4_CountersAddUpAfterCycle ==
    \A t \in Threads :
        pc[t] = "reschedule" => total_scans = successful_scans + failed_scans

\* C5: while the scheduler stays Running, every completed cycle, successful
\* or failed, is followed by the start of a later cycle (for cycles that end
\* early enough for the next one to fall inside the modelled time span).
C5_CyclesKeepFiring ==
    \A t \in Threads :
        (pc[t] = "reschedule" /\ now <= Horizon) ~> (pc[t] = "rotate")

\* C5 witness: a new cycle starts although every cycle so far has failed
C5_Witness ==
    \E t \in Threads :
        pc[t] = "rotate" /\ failed_scans >= 1 /\ successful_scans = 0

(***************************************************************************)
(* Properties of the store and the feedback path                           *)
(***************************************************************************)

\* feedback rows written in the trailing 24 hours, the boundary included
TrailingDayCount(fb, t) ==
    Cardinality({i \in DOMAIN fb : HourOf(fb[i].feedback_timestamp) >= t - HoursPerDay})

\* C6: a feedback event triggers retraining exactly when, the event applied,
\* at least 10 feedback events lie in the trailing 24 hours.
C6_RetrainExactlyOnTrailingDayCount ==
    [][(fb_pc = "gate" /\ fb_pc' # "gate")
          => ((fb_pc' = "train")
                <=> TrailingDayCount(user_feedback, clock) >= RetrainThreshold)]_vars

\* C7: once record_user_feedback is past its commit, nothing of its
\* transaction is pending: the event is the newest committed user_feedback
\* row when the gate is evaluated, the row its UPDATE matched carries the
\* event's label, and the rows _train_model fetched contain that label.
C7_FeedbackCommittedBeforeGate ==
    fb_pc \in {"gate", "train", "vectorize", "fit", "finish"}
        => /\ tx = EmptyTx
           /\ Len(user_feedback) > 0
           /\ user_feedback[Len(user_feedback)] = FeedbackRow(fb_req)
           /\ fb_req.rowcount = 1
                => /\ articles[fb_req.article_id].user_interest
                        = user_interest_of(fb_req.feedback_type)
                   /\ fb_pc \in {"vectorize", "fit", "finish"}
                        => <<fb_req.article_id, user_interest_of(fb_req.feedback_type)>>
                               \in train_data

\* C7 witness: training runs on rows that hold the label of the very event
\* that brought the gate's count to the threshold
C7_Witness ==
    /\ fb_pc = "vectorize"
    /\ fb_req.rowcount = 1
    /\ recent_feedback(user_feedback, clock) = RetrainThreshold
    /\ <<fb_req.article_id, user_interest_of(fb_req.feedback_type)>> \in train_data

\* C8: feedback for an identity that matches no stored article stores no
\* feedback event and changes no article.
C8_UnknownArticleFeedbackIsNoOp ==
    [][(fb_pc = "commit" /\ fb_pc' # "commit" /\ fb_req.article_id \notin DOMAIN articles)
          => (user_feedback' = user_feedback /\ articles' = articles)]_vars

\* the label the newest interested / not_interested row of an article gives
LatestLabel(fb, id) ==
    LET rows == {i \in DOMAIN fb : /\ fb[i].article_id = id
                                   /\ user_interest_of(fb[i].feedback_type) # None}
    IN  IF rows = {} THEN None
        ELSE user_interest_of(fb[CHOOSE i \in rows : \A j \in rows : j <= i].feedback_type)

\* C9: each article's label equals the kind of the latest interested /
\* not_interested event recorded for it, and is null if there is none.
C9_LabelIsLatestFeedback ==
    \A id \in DOMAIN articles :
        articles[id].user_interest = LatestLabel(user_feedback, id)

\* C10: _train_model called with fewer than 50 labelled rows returns at once
\* and leaves vectorizer, classifier, trained flag and snapshot file as they were.
C10_TrainingRefusedBelowMinimum ==
    [][(fb_pc = "train" /\ fb_pc' # "train"
            /\ Cardinality(labeled_rows(articles)) < MinTrainingExamples)
          => (fb_pc' = "idle" /\ UNCHANGED classifierVars)]_vars

\* C10 witness: training was refused at 49 labelled rows with a loaded
\* classifier state in place
C10_Witness ==
    /\ train_outcome = "refused"
    /\ Cardinality(labeled_rows(articles)) = MinTrainingExamples - 1
    /\ model_trained /\ model_file

\* C11: a training pass that fails after it started (vectorizing, splitting,
\* fitting, evaluating) leaves vectorizer, classifier and trained flag as they
\* were when the pass began.
C11_FailedPassKeepsClassifierState ==
    [][(train_outcome # "error" /\ train_outcome' = "error")
          => <<vectorizer', classifier', model_trained'>> = train_before]_vars

\* C12: a prediction answered by the model, also one that ran beside a
\* training pass, transformed with the vectorizer and predicted with the
\* classifier of one and the same training pass (the old pair or the new).
C12_PredictionUsesOnePair ==
    pred_result = "model"
        => /\ pred_used.vectorizer.state = "fitted"
           /\ pred_used.classifier.state = "fitted"
           /\ pred_used.vectorizer.made_by = pred_used.classifier.made_by

\* C13: the trained flag is set only while a fitted vectorizer and a fitted
\* classifier, produced from at least 50 labelled rows, are in memory.
C13_TrainedFlagMeansModelInMemory ==
    model_trained
        => /\ vectorizer.state = "fitted"
           /\ classifier.state = "fitted"
           /\ vectorizer.examples >= MinTrainingExamples
           /\ classifier.examples >= MinTrainingExamples

(***************************************************************************)
(* Properties of the scheduler's control operations                       *)
(***************************************************************************)

\* the main thread's step is the call of the named control operation
Called(op) == calls' = calls + 1 /\ last_call'.op = op

\* C14: set_scan_interval(seconds) with seconds < 60 raises and leaves the
\* interval, the persisted configuration and next_scan as they were, whatever
\* state the scheduler is in.
C14_ShortIntervalRejected ==
    [][(Called("set_scan_interval") /\ last_call'.arg < MinInterval)
          => /\ last_call'.raised = "ValueError"
             /\ UNCHANGED <<scan_interval, config_interval, next_scan>>]_vars

\* C14 witness: a running scheduler with a scan scheduled has refused 30 s
C14_Witness ==
    /\ last_call.op = "set_scan_interval"
    /\ last_call.arg = 30
    /\ last_call.raised = "ValueError"
    /\ running
    /\ next_scan # None
    /\ scan_interval = MinInterval

C16_IntervalAtLeastMinimum == scan_interval >= MinInterval

\* the step computes next_scan: start()'s scheduling, resume(), a successful
\* set_scan_interval(), the loop's rescheduling after a cycle
Rescheduled ==
    \/ main_pc = "start_schedule" /\ main_pc' = "idle"
    \/ Called("resume") /\ last_call'.raised = "none"
    \/ Called("set_scan_interval") /\ last_call'.raised = "none"
    \/ \E t \in Threads : pc[t] = "reschedule" /\ pc'[t] = "sleep"

\* C17: whenever a running scheduler has just computed next_scan, next_scan
\* is not earlier than the current time.
C17_NextScanNotInPast ==
    [][(running /\ Rescheduled) => next_scan' >= now]_vars

\* C18: start() on a running scheduler starts no loop thread and leaves
\* running, enabled, next_scan, last_scan, the interval and the counters
\* unchanged.
C18_StartWhileRunningIsNoOp ==
    [][(Called("start") /\ running)
          => UNCHANGED <<running, enabled, next_scan, last_scan, scan_interval,
                         config_interval, counters, thread, pc, main_pc>>]_vars

\* C18 witness: start() has returned on a running, paused scheduler, which is
\* still paused (a start that goes through sets enabled)
C18_Witness ==
    /\ last_call.op = "start"
    /\ main_pc = "idle"
    /\ running
    /\ ~enabled
    /\ Cardinality({t \in Threads : pc[t] # "none"}) = 1

\* C19: every start() that takes the scheduler from stopped to running sets
\* next_scan to now + 60 seconds.
C19_StartSchedulesFirstScanInAMinute ==
    [][(main_pc = "start_schedule" /\ main_pc' = "idle")
          => next_scan' = now + FirstScanDelay]_vars

\* C20: trigger_scan_now() and resume() on a stopped scheduler raise and
\* leave running, enabled, next_scan, last_scan, the interval, the counters
\* and the loop threads unchanged.
C20_NotRunningRejected ==
    [][((Called("trigger_scan_now") \/ Called("resume")) /\ ~running)
          => /\ last_call'.raised = "RuntimeError"
             /\ UNCHANGED <<running, enabled, next_scan, last_scan, scan_interval,
                            config_interval, counters, thread, pc, main_pc>>]_vars

\* C20 witness: on a scheduler stopped after it had scheduled a scan, the
\* call was refused
C20_Witness ==
    /\ last_call.op \in {"trigger_scan_now", "resume"}
    /\ last_call.raised = "RuntimeError"
    /\ ~running
    /\ ~enabled
    /\ next_scan # None

\* C21: after a successful trigger_scan_now() on a running scheduler, the
\* loop's next poll test starts a scan cycle: no poll test goes back to
\* sleep while the trigger is pending (and no other control call was made).
C21_TriggerFiresAtNextPoll ==
    [][~(/\ running
         /\ trigger_pending
         /\ last_call.op = "trigger_scan_now"
         /\ \E t \in Threads : pc[t] = "check" /\ pc'[t] = "sleep")]_vars

\* C22: a pause() that directly follows a pause() changes nothing: running,
\* enabled, next_scan, last_scan, interval and counters are as the first
\* pause() left them.
C22_PauseIsIdempotent ==
    [][(Called("pause") /\ last_call'.again)
          => UNCHANGED <<running, enabled, next_scan, last_scan, scan_interval,
                         config_interval, counters, thread, pc, main_pc>>]_vars

\* C22 witness: a running scheduler was paused twice in a row and is paused
C22_Witness ==
    /\ last_call.op = "pause"
    /\ last_call.again
    /\ running
    /\ ~enabled
    /\ next_scan # None

\* C23: stop() returns with the running flag cleared; a loop thread that
\* finds the flag cleared at the top of its loop ends; and unless a start()
\* follows, every loop thread then comes to its end (or is in a sleep that
\* ends beyond the modelled time span).
C23_LoopExitsAfterStop ==
    /\ [][Called("stop") => (main_pc' = "idle" /\ ~running')]_vars
    /\ [][\A t \in Threads :
            (~running /\ pc[t] = "while" /\ pc'[t] # "while") => pc'[t] = "dead"]_vars
    /\ \A t \in Threads :
          (~running /\ pc[t] # "none")
              ~> (running \/ pc[t] = "dead" \/ (pc[t] = "sleep" /\ wake[t] > MaxTime))

\* C23 witness: a loop that has run a scan cycle has exited after stop()
C23_Witness ==
    \E t \in Threads :
        /\ pc[t] = "dead"
        /\ cycle_end[t].kind # "none"
        /\ ~running
        /\ last_call.op = "stop"

\* C24: no scan cycle starts while the running flag is cleared.
C24_NoCycleStartsWhileStopped ==
    [][~(~running /\ \E t \in Threads : pc[t] = "check" /\ pc'[t] = "rotate")]_vars

\* C25: at most one scheduling loop is alive at a time.
C25_AtMostOneLoopAlive ==
    Cardinality({t \in Threads : pc[t] \notin {"none", "dead"}}) <= 1

(***************************************************************************)
(* C26: within a scan cycle every article pushed to the notification       *)
(* channel has been recorded in the store before its notification is       *)
(* delivered: every notified article has a row in the articles table.      *)
(***************************************************************************)
C26_StoredBeforeNotified ==
    \A i \in DOMAIN notified : \E j \in DOMAIN articles : articles[j].title = notified[i]

(***************************************************************************)
(* C27: when the channel's handler has dealt with a press of the           *)
(* interested or not_interested button of a notified article, it has       *)
(* invoked the store's feedback operation with that kind for that article. *)
(***************************************************************************)
C27_FeedbackPressReachesStore ==
    [][(/\ cb_pc # "idle"
        /\ cb_pc' = "idle"
        /\ cb_query.button \in {"interested", "not_interested"})
          => \E k \in DOMAIN store_calls' :
                /\ k > Len(store_calls)
                /\ store_calls'[k] = <<cb_query.article, cb_query.button>>]_vars

(***************************************************************************)
(* C28: a storage failure while recording an article is not fatal: the     *)
(* pipeline goes on with the next article of the site, nothing of the      *)
(* results or of the notifications delivered so far is taken back, and     *)
(* scan_websites raises only for a configured entry that is no dict,       *)
(* never because of the store (so the cycle does not count as failed).     *)
(***************************************************************************)
C28_StorageFailureIsNotFatal ==
    /\ [][record_failed' # record_failed
            => /\ scan_pc' = "article"
               /\ art_idx' = art_idx + 1
               /\ UNCHANGED <<websites, site_idx, filtered, results, notified,
                              articles>>]_vars
    /\ [](scan_pc = "raised" => websites[site_idx] = "not_a_dict")

\* the pass returned although the record of a notified article failed, and
\* an article of a later site was processed after it
C28_Witness ==
    /\ scan_pc = "returned"
    /\ \E f \in DOMAIN record_failed :
          /\ \E n \in DOMAIN notified : notified[n] = record_failed[f]
          /\ \E i, j \in DOMAIN results :
                /\ i < j
                /\ results[i] = record_failed[f]
                /\ results[j][1] > results[i][1]
          /\ \E i, j \in DOMAIN results :
                /\ i < j
                /\ results[i] = record_failed[f]
                /\ results[j][1] = results[i][1]

(***************************************************************************)
(* C29: the store is append-only.  No step deletes an article or a         *)
(* feedback event; of a recorded article only the label ever changes, its  *)
(* text and its relevance score stay as recorded, also when the model is   *)
(* retrained; a feedback event never changes.                              *)
(***************************************************************************)
C29_StoreIsAppendOnly ==
    [][/\ Len(articles') >= Len(articles)
       /\ \A i \in DOMAIN articles :
             /\ articles'[i].title = articles[i].title
             /\ articles'[i].relevance_score = articles[i].relevance_score
       /\ Len(user_feedback') >= Len(user_feedback)
       /\ \A i \in DOMAIN user_feedback : user_feedback'[i] = user_feedback[i]]_vars

\* an article was recorded, the feedback on an article with a non-zero score
\* relabelled it and the model was retrained on it
C29_Witness ==
    /\ new_articles > 0
    /\ train_outcome = "trained"
    /\ \E i \in DOMAIN articles :
          /\ articles[i].user_interest = 0
          /\ i % 2 = 1
          /\ articles[i].relevance_score.num > 0

(***************************************************************************)
(* C30: is_relevant rejects every article in which a blacklist term stands *)
(* as a whole word (case ignored) in title + content, i.e. with no word    *)
(* character directly before or after it, also when a configured keyword   *)
(* matches and every other check would pass.                               *)
(***************************************************************************)
WholeWordAt(term, text, p) ==
    /\ LiteralAt(term, text, p)
    /\ (p = 1 \/ text[p - 1] \notin WordChars)
    /\ (p + Len(term) > Len(text) \/ text[p + Len(term)] \notin WordChars)

C30_BlacklistWholeWordRejects ==
    (/\ flt_result.returned
     /\ \E i \in DOMAIN flt_config.blacklist :
           \E p \in DOMAIN combined_text(flt_article) :
               WholeWordAt(flt_config.blacklist[i], combined_text(flt_article), p))
        => ~flt_result.value

(***************************************************************************)
(* C31: is_relevant returns true exactly when none of the rejection        *)
(* conditions holds: combined text shorter than the minimum content        *)
(* length; a blacklist term matching (as a whole word, case ignored);      *)
(* keywords configured and none matching; title length outside [10, 200];  *)
(* more than 30 % capitals in the title; low-quality content (fewer than   *)
(* 20 words, fewer than 30 % different words, more than 5 % '!' and '?').  *)
(* With no keywords configured the keyword condition does not reject.      *)
(***************************************************************************)
WholeWordIn(term, text) == \E p \in DOMAIN text : WholeWordAt(term, text, p)

RejectionCondition(config, article) ==
    LET title == article.title
        content == article.content
        text == combined_text(article)
        nWords == Cardinality(WordStarts(content))
        different == {SubSeq(lower(content), i, WordEnd(content, i)) :
                          i \in WordStarts(content)}
        marks == Cardinality({k \in DOMAIN content : content[k] = "!"})
        capitals == Cardinality({k \in DOMAIN title : IsUpper(title[k])})
    IN  \/ Len(text) < MinContentLength
        \/ \E i \in DOMAIN config.blacklist : WholeWordIn(config.blacklist[i], text)
        \/ /\ config.keywords # <<>>
           /\ \A i \in DOMAIN config.keywords : ~WholeWordIn(config.keywords[i], text)
        \/ Len(title) < MinTitleLength
        \/ Len(title) > MaxTitleLength
        \/ 10 * capitals > 3 * Len(title)
        \/ nWords < MinWords
        \/ 10 * Cardinality(different) < 3 * nWords
        \/ 100 * marks > 5 * Len(content)

C31_RelevantIffNoRejection ==
    flt_result.returned
        => (flt_result.value <=> ~RejectionCondition(flt_config, flt_article))

(***************************************************************************)
(* C32: for every article and every keyword list (empty, or with the same  *)
(* keyword twice) the relevance score computed at record time lies in      *)
(* [0, 1]; so does the score of the content filter.                        *)
(***************************************************************************)
InUnitInterval(score) == 0 <= score.num /\ score.num <= score.den /\ score.den > 0

C32_ScoreInUnitInterval ==
    score_result.returned
        => InUnitInterval(score_result.stored) /\ InUnitInterval(score_result.filter)

\* an illustrated article with a fitting title and a long content, matching
\* a keyword that is listed twice, was given the score 1
C32_Witness ==
    /\ score_result.returned
    /\ Len(score_keywords) = 2
    /\ score_keywords[1] = score_keywords[2]
    /\ score_keywords[1] \in score_article.mentions
    /\ score_result.stored.num = score_result.stored.den

(***************************************************************************)
(* C33: when the classifier is untrained or the model call raises,         *)
(* predict_interest answers by the fallback rule: false if a blacklist     *)
(* term occurs in title + content (as a substring, case ignored), else     *)
(* true if a configured keyword occurs, else false.                        *)
(***************************************************************************)
SubstringOf(term, text) ==
    \E p \in 1..(Len(text) - Len(term) + 1) :
        \A k \in DOMAIN term : LowerChar(text[p + k - 1]) = LowerChar(term[k])

C33_FallbackRule ==
    basic_result.returned
        => LET text == flt_article.title \o <<" ">> \o flt_article.content
               blacklisted == \E i \in DOMAIN flt_config.blacklist :
                                  SubstringOf(flt_config.blacklist[i], text)
               keyword == \E i \in DOMAIN flt_config.keywords :
                              SubstringOf(flt_config.keywords[i], text)
           IN  basic_result.value <=> (~blacklisted /\ keyword)

(***************************************************************************)
(* C34: in a pass of scan_websites an article is counted in the results,   *)
(* notified or recorded in the store only if is_relevant returned true for *)
(* it, and notified only if is_interesting returned true for it as well.   *)
(***************************************************************************)
C34_OnlyRelevantArticlesPass ==
    /\ \A i \in DOMAIN results : results[i] \in accepted
    /\ \A i \in DOMAIN articles : articles[i].title \in accepted
    /\ \A i \in DOMAIN notified : notified[i] \in accepted \cap predicted

\* a page of which is_relevant rejected an article, another article of it
\* notified and stored, a third processed, predicted uninteresting and stored
C34_Witness ==
    /\ scan_pc = "returned"
    /\ scraped > Cardinality(accepted)
    /\ Len(notified) > 0
    /\ Len(articles) > Len(notified)
    /\ \E i \in DOMAIN results : results[i] \notin predicted

(***************************************************************************)
(* C35: in each scan cycle route rotation is requested before the fetch    *)
(* pipeline, and a rotation that fails (rotate_ip returning false, or      *)
(* raising) is not fatal: the pipeline runs in that cycle and the cycle is *)
(* not counted as failed because of the rotation.                          *)
(***************************************************************************)
AfterRotation == {"pipeline", "last_scan", "total", "successful", "summary",
                  "except_total", "except_failed", "except_notify", "reschedule"}

InExceptClause == {"except_total", "except_failed", "except_notify"}

C35_RotationFailureIsNotFatal ==
    \A t \in Threads :
        /\ pc[t] \in AfterRotation => cycle[t].rotation # "none"
        /\ pc[t] \in AfterRotation \ {"pipeline"} => cycle[t].fetch # "none"
        /\ pc[t] \in InExceptClause => cycle[t].fetch = "raised"
        /\ pc[t] = "reschedule" /\ cycle_end[t].kind = "failed"
              => cycle[t].fetch = "raised"

\* a cycle whose rotation failed on a connected controller has run the
\* pipeline and was counted successful
C35_Witness ==
    \E t \in Threads :
        /\ tor.connected
        /\ cycle[t].rotation = "false"
        /\ cycle[t].fetch = "returned"
        /\ pc[t] = "reschedule"
        /\ cycle_end[t].kind = "ok"
        /\ successful_scans = 1
        /\ failed_scans = 0

(***************************************************************************)
(* C36: every successful scan cycle emits a summary notification when the  *)
(* notification channel is enabled, whatever the number of articles found, *)
(* zero included.                                                          *)
(***************************************************************************)
C36_SummaryAfterEverySuccess ==
    \A t \in Threads :
        (pc[t] = "reschedule" /\ cycle_end[t].kind = "ok" /\ channel_enabled)
            => cycle[t].summary = "sent"

(***************************************************************************)
(* C38: every snapshot get_status() returns, one taken while a scan cycle  *)
(* updates the counters included, satisfies                                *)
(* total_scans = successful_scans + failed_scans and                       *)
(* successful_scans <= total_scans.                                        *)
(***************************************************************************)
C38_StatusCountersAddUp ==
    status.returned
        => /\ status.total_scans = status.successful_scans + status.failed_scans
           /\ status.successful_scans <= status.total_scans

(***************************************************************************)
(* C37: a failure while fetching or processing one configured site never   *)
(* raises out of scan_websites and never keeps the remaining sites from    *)
(* being processed in the same pass; scrape_website yields an empty        *)
(* sequence for a failing site and does not raise to its caller.           *)
(***************************************************************************)
C37_SiteFailureIsContained ==
    /\ scan_pc # "raised"
    /\ scan_pc # "except"
    /\ scan_pc = "returned" => site_idx = Len(websites) + 1

(***************************************************************************)
(* C39: paused implies running in every reachable state: pause() on a      *)
(* stopped scheduler does not raise and does not make it paused, stop()    *)
(* always leaves it not paused, and start() from Stopped yields Running    *)
(* and not Paused even if pause() was called before.                       *)
(***************************************************************************)
Returned(op) == calls' = calls + 1 /\ last_call'.op = op

C39_PausedImpliesRunning ==
    [][/\ is_paused' => running'
       /\ (Returned("pause") /\ ~running)
             => last_call'.raised = "none" /\ ~running' /\ ~is_paused'
       /\ Returned("stop") => ~is_paused'
       /\ (Returned("start") /\ ~running) => running' /\ ~is_paused']_vars

\* a scheduler that was started, stopped and then paused, and one started
\* again after that: the third call was made on a stopped scheduler whose
\* enabled flag is cleared
C39_Witness ==
    /\ calls = 3
    /\ thread # None
    /\ ~running
    /\ ~enabled
    /\ last_call.op = "pause"
    /\ last_call.raised = "none"

====
